---- MODULE Spec2Model ----
(***************************************************************************)
(* Utility bill processing: the Step Functions workflow that drives the    *)
(* Textract expense job and query job to completion (state machine         *)
(* construct), and the Lambda handlers it invokes (checkTextractJobStatus, *)
(* startQueries, invoicePostProcessing).                                   *)
(***************************************************************************)
EXTENDS Integers, Sequences, FiniteSets, TLC

(***************************************************************************)
(* JavaScript values.  A missing (undefined) string is the string          *)
(* Undefined, which is none of the strings the program handles; a missing  *)
(* number is NoNumber; a missing token or block id is 0 (tokens and ids    *)
(* that exist are positive).                                               *)
(***************************************************************************)
Undefined == "#undefined"
NoNumber == 0 - 1
Falsy(s) == s = Undefined \/ s = ""

\* Bounds of the model.
MaxFields == 3
MaxBlocks == 3
MaxExpensePages == 2
MaxExpenseDocs == 2
MaxMembers == 3
MaxExecutions == 2
MaxPolls == 2
MaxInstances == 2

VARIABLES
  pc,                 \* the state the execution is in (or the handler's await)
  detail,             \* $.detail: the S3 event (bucket name, object key)
  invoiceQueries,     \* the queries startQueries is configured with
  expenseAnalysis,    \* $.expenseAnalysis: id.JobId and status.JobStatus
  queries,            \* $.queries.Payload: the result of startQueries
  documentAnalysis,   \* $.documentAnalysis.status.JobStatus
  Payload,            \* $.Payload: the result of invoicePostProcessing
  s3,                 \* the objects put into the bucket by the workflow
  jobResponse,        \* the response of the last status request
  expensePages,       \* Textract: the result pages of the expense job
  docBlocks,          \* Textract: the blocks of the document-analysis job
  docRequests,        \* the NextToken of each GetDocumentAnalysis request
  docResponses,       \* the NextToken of each GetDocumentAnalysis response
  textractBlocks,     \* extractQueryResults...: the blocks accumulated
  pageToken,          \* extractQueryResults...: the loop's page token
  resultRequests,     \* the Get...Analysis requests of invoicePostProcessing
  utilityInvoiceSummary, \* handler: the summary being built
  doc,                \* getMostConfident...: the expense document given
  summaryFieldType,   \* getMostConfident...: the type asked for
  resolved,           \* getMostConfident...: what the call produced
  startRequests,      \* the Start... requests the execution sent to Textract
  execution,          \* the number of the execution, counted from 1
  putRequests,        \* the PutObject requests of the executions so far
  waits,              \* the seconds of the Wait states the execution entered
  polls,              \* the API of the status requests the execution sent
  instances,          \* executions side by side: the state of each
  input,              \* generative workflow: the execution input
  state,              \* generative workflow: $, the state input of the step
  wip,                \* generative workflow: the request object under wip/
  rawImages,          \* bedrockInput: the downloads of addImagesToPrompt
  events              \* generative workflow: the events the execution put

vars == <<pc, detail, invoiceQueries, expenseAnalysis, queries,
          documentAnalysis, Payload, s3, jobResponse, expensePages, docBlocks,
          docRequests, docResponses, textractBlocks, pageToken,
          resultRequests, utilityInvoiceSummary, doc, summaryFieldType, resolved,
          startRequests, execution, putRequests, waits, polls, instances,
          input, state, wip, rawImages, events>>

generativeVars == <<input, state, wip, rawImages, events>>
pollVars == <<waits, polls>>

(***************************************************************************)
(* Sequences of bounded length.                                            *)
(***************************************************************************)
SeqUpTo(S, n) == UNION {[1..k -> S] : k \in 0..n}

(***************************************************************************)
(* invoicePostProcessing: the structured fields.                           *)
(***************************************************************************)
\* A summary field: Type?.Text, ValueDetection?.Confidence, ValueDetection?.Text.
SummaryFieldTypes == {"VENDOR_NAME", "ACCOUNT_NUMBER", "TOTAL", "DUE_DATE"}

\* What a thrown exception leaves in place of a value.
Thrown == "#thrown"

\* (x.ValueDetection?.Confidence || 0)
ConfidenceOrZero(field) ==
  IF field.Confidence = NoNumber THEN 0 ELSE field.Confidence

\* The comparator of the sort: negative when a goes before b.
compareAscending(a, b) == ConfidenceOrZero(a) - ConfidenceOrZero(b)
compareConfidence(a, b) == ConfidenceOrZero(b) - ConfidenceOrZero(a)

\* fields.filter(pred): the fields of the type, in their order.
RECURSIVE filterByType(_, _)
filterByType(fields, type) ==
  IF fields = <<>> THEN <<>>
  ELSE LET rest == filterByType(Tail(fields), type)
       IN  IF Head(fields).Type = type THEN <<Head(fields)>> \o rest ELSE rest

\* Array.prototype.sort is stable: x goes behind every element that does not
\* compare behind it.
RECURSIVE insertSorted(_, _)
insertSorted(x, sorted) ==
  IF sorted = <<>> THEN <<x>>
  ELSE IF compareConfidence(Head(sorted), x) <= 0
       THEN <<Head(sorted)>> \o insertSorted(x, Tail(sorted))
       ELSE <<x>> \o sorted

RECURSIVE sortByConfidence(_)
sortByConfidence(fields) ==
  IF fields = <<>> THEN <<>>
  ELSE insertSorted(fields[Len(fields)],
                    sortByConfidence(SubSeq(fields, 1, Len(fields) - 1)))

\* The most confident field's text without the || "undefined" behind it.
textWithoutFallback(d, type) ==
  LET vendorNameResultsSortedByConfidence ==
        sortByConfidence(filterByType(d.SummaryFields, type))
  IN  IF vendorNameResultsSortedByConfidence = <<>> THEN Thrown
      ELSE vendorNameResultsSortedByConfidence[1].Text

\* [0] of an empty array is undefined, and reading a property of it throws.
getMostConfidentResultBySummaryFieldsType(d, type) ==
  LET vendorNameResultsSortedByConfidence ==
        sortByConfidence(filterByType(d.SummaryFields, type))
  IN  IF vendorNameResultsSortedByConfidence = <<>> THEN Thrown
      ELSE IF Falsy(vendorNameResultsSortedByConfidence[1].Text)
           THEN "undefined"
           ELSE vendorNameResultsSortedByConfidence[1].Text


EmptyMetadata == [k \in {} |-> Undefined]

\* The UtilityInvoiceSummary a handler that threw never built.
NoSummary ==
  [UtilityName |-> Undefined, AccountId |-> Undefined,
   TotalCharges |-> Undefined, DueDate |-> Undefined,
   HasConsumptionMetadata |-> FALSE, ConsumptionMetadata |-> EmptyMetadata]

\* The document whose fields are resolved: ExpenseDocuments[0].
firstDocument(expense) == expense.ExpenseDocuments[1]
lastDocument(expense) == expense.ExpenseDocuments[Len(expense.ExpenseDocuments)]
summaryDocument(expense) == firstDocument(expense)

extractValuesFromAnalyzeExpense(expense) ==
  IF ~expense.HasExpenseDocuments \/ Len(expense.ExpenseDocuments) = 0
  THEN [threw |-> TRUE, summary |-> NoSummary]
  ELSE LET d == summaryDocument(expense)
       IN  IF ~d.HasSummaryFields
           THEN [threw |-> TRUE, summary |-> NoSummary]
           ELSE LET vendor == getMostConfidentResultBySummaryFieldsType(d, "VENDOR_NAME")
                    account == getMostConfidentResultBySummaryFieldsType(d, "ACCOUNT_NUMBER")
                    total == getMostConfidentResultBySummaryFieldsType(d, "TOTAL")
                    due == getMostConfidentResultBySummaryFieldsType(d, "DUE_DATE")
                IN  IF Thrown \in {vendor, account, total, due}
                    THEN [threw |-> TRUE, summary |-> NoSummary]
                    ELSE [threw |-> FALSE,
                          summary |->
                            [UtilityName |-> vendor, AccountId |-> account,
                             TotalCharges |-> total, DueDate |-> due,
                             HasConsumptionMetadata |-> FALSE,
                             ConsumptionMetadata |-> EmptyMetadata]]

\* Textract GetExpenseAnalysis: the page the token names (the first one when
\* the request carries none) and the token of the page behind it.
GetExpenseAnalysisCommand(pages, token) ==
  LET i == IF token = 0 THEN 1 ELSE token
  IN  [HasExpenseDocuments |-> pages[i].HasExpenseDocuments,
       ExpenseDocuments |-> pages[i].ExpenseDocuments,
       NextToken |-> IF i < Len(pages) THEN i + 1 ELSE 0]

\* The function with its errors caught: the summary is returned as far as
\* it was built.
extractSummaryFieldsCaught(pages) ==
  [threw |-> FALSE,
   summary |->
     extractValuesFromAnalyzeExpense(GetExpenseAnalysisCommand(pages, 0)).summary]

\* One GetExpenseAnalysisCommand({JobId}) and the values of its response.
extractSummaryFieldsFromExpenseResult(pages) ==
  LET expenseResult == GetExpenseAnalysisCommand(pages, 0)
  IN  IF ~expenseResult.HasExpenseDocuments
      THEN [threw |-> TRUE, summary |-> NoSummary]
      ELSE extractValuesFromAnalyzeExpense(expenseResult)

(***************************************************************************)
(* invoicePostProcessing: the query answers.                               *)
(***************************************************************************)
\* block.Relationships && length > 0 && Relationships[0].Ids && Ids[0]
hasFirstRelationshipId(block) ==
  /\ Len(block.Relationships) > 0
  /\ Len(block.Relationships[1].Ids) > 0
  /\ block.Relationships[1].Ids[1] # 0

\* The first loop without its break: the last matching block wins.
RECURSIVE findLastAnswerBlockId(_, _)
findLastAnswerBlockId(query, blocks) ==
  IF blocks = <<>> THEN 0
  ELSE LET behind == findLastAnswerBlockId(query, Tail(blocks))
       IN  IF behind # 0 THEN behind
           ELSE IF /\ Head(blocks).HasQuery
                   /\ Head(blocks).Alias = query.Alias
                   /\ hasFirstRelationshipId(Head(blocks))
                THEN Head(blocks).Relationships[1].Ids[1]
                ELSE 0

\* The first loop with its break behind the else branch too: the first
\* matching block decides, with or without a relationship id.
RECURSIVE findFirstMatchAnswerBlockId(_, _)
findFirstMatchAnswerBlockId(query, blocks) ==
  IF blocks = <<>> THEN 0
  ELSE IF Head(blocks).HasQuery /\ Head(blocks).Alias = query.Alias
       THEN IF hasFirstRelationshipId(Head(blocks))
            THEN Head(blocks).Relationships[1].Ids[1]
            ELSE 0
       ELSE findFirstMatchAnswerBlockId(query, Tail(blocks))

\* The first loop over textractBlocks: the id the first matching block with
\* a relationship id refers to, or 0 (null).
RECURSIVE findAnswerBlockId(_, _)
findAnswerBlockId(query, blocks) ==
  IF blocks = <<>> THEN 0
  ELSE IF /\ Head(blocks).HasQuery
          /\ Head(blocks).Alias = query.Alias
          /\ hasFirstRelationshipId(Head(blocks))
       THEN Head(blocks).Relationships[1].Ids[1]
       ELSE findAnswerBlockId(query, Tail(blocks))

\* The fallback without its left operand: every answer under one key.
metadataKeyUndefined(query) == "alias_undefined"

\* query.Alias || "alias_undefined"
metadataKey(query) ==
  IF Falsy(query.Alias) THEN "alias_undefined" ELSE query.Alias

\* The second loop with the metadata assigned instead of spread.
RECURSIVE replaceMetadata(_, _, _, _)
replaceMetadata(summary, query, answerBlockId, blocks) ==
  IF blocks = <<>> THEN summary
  ELSE LET block == Head(blocks)
           merged ==
             IF block.BlockType = "QUERY_RESULT" /\ block.Id = answerBlockId
             THEN [summary EXCEPT
                     !.HasConsumptionMetadata = TRUE,
                     !.ConsumptionMetadata =
                        (IF Falsy(query.Alias) THEN "alias_undefined"
                         ELSE query.Alias) :> block.Text]
             ELSE summary
       IN  replaceMetadata(merged, query, answerBlockId, Tail(blocks))

\* The second loop over textractBlocks: every QUERY_RESULT block of that id
\* is spread over the metadata.
RECURSIVE mergeAnswerBlocks(_, _, _, _)
mergeAnswerBlocks(summary, query, answerBlockId, blocks) ==
  IF blocks = <<>> THEN summary
  ELSE LET block == Head(blocks)
           merged ==
             IF block.BlockType = "QUERY_RESULT" /\ block.Id = answerBlockId
             THEN [summary EXCEPT
                     !.HasConsumptionMetadata = TRUE,
                     !.ConsumptionMetadata =
                        (metadataKey(query) :> block.Text) @@ @]
             ELSE summary
       IN  mergeAnswerBlocks(merged, query, answerBlockId, Tail(blocks))

\* The loop over the queries with a break in the place of its continue.
RECURSIVE resolveQueriesUntilMiss(_, _, _)
resolveQueriesUntilMiss(qs, blocks, summary) ==
  IF qs = <<>> THEN summary
  ELSE LET answerBlockId == findAnswerBlockId(Head(qs), blocks)
       IN  IF answerBlockId = 0 THEN summary
           ELSE resolveQueriesUntilMiss(
                  Tail(qs), blocks,
                  mergeAnswerBlocks(summary, Head(qs), answerBlockId, blocks))

\* for (const query of queries) { ... }
RECURSIVE resolveQueries(_, _, _)
resolveQueries(qs, blocks, summary) ==
  IF qs = <<>> THEN summary
  ELSE LET answerBlockId == findAnswerBlockId(Head(qs), blocks)
           next ==
             IF answerBlockId = 0 THEN summary
             ELSE mergeAnswerBlocks(summary, Head(qs), answerBlockId, blocks)
       IN  resolveQueries(Tail(qs), blocks, next)

\* The Lambda response is JSON: a key whose value is undefined is left out.
JsonOf(summary) ==
  [summary EXCEPT
     !.ConsumptionMetadata =
        [k \in {x \in DOMAIN summary.ConsumptionMetadata :
                  summary.ConsumptionMetadata[x] # Undefined}
           |-> summary.ConsumptionMetadata[k]]]

\* return { invoiceOutput, outputKey: `output/${key}.json` }
oneOutputKey(key) == "output/invoice.json"
outputKeyOf(key) == "output/" \o key \o ".json"


(***************************************************************************)
(* checkTextractJobStatus, startQueries and the states of the workflow.    *)
(***************************************************************************)
\* The statuses a job reports; a response may carry none, or one the
\* workflow does not list.
JobStatuses ==
  {"IN_PROGRESS", "SUCCEEDED", "PARTIAL_SUCCESS", "FAILED", "UNLISTED", Undefined}

\* The ternary without its condition: every job is asked for as a
\* document-analysis job.
documentCommandAlways(API) == "GetDocumentAnalysisCommand"

\* event.API === "AnalyzeExpense" ? GetExpenseAnalysisCommand : GetDocumentAnalysisCommand
textractCommand(API) ==
  IF API = "AnalyzeExpense" THEN "GetExpenseAnalysisCommand"
  ELSE "GetDocumentAnalysisCommand"

\* JobStatus: response.JobStatus || "FAILED"
inProgressWhenMissing(status) == IF Falsy(status) THEN "IN_PROGRESS" ELSE status
checkTextractJobStatus(status) == IF Falsy(status) THEN "FAILED" ELSE status

\* Choice EvaluateGetExpenseAnalysisReadiness.
expenseChoiceWithoutPartial(JobStatus) ==
  IF JobStatus = "SUCCEEDED" THEN "startQueriesLambdaStep"
  ELSE IF JobStatus = "IN_PROGRESS" THEN "WaitForTextractExpenseAnalysis"
  ELSE "FailedTextract"
expenseChoiceWaitUnlessCompleted(JobStatus) ==
  IF JobStatus = "SUCCEEDED" \/ JobStatus = "PARTIAL_SUCCESS"
  THEN "startQueriesLambdaStep"
  ELSE "WaitForTextractExpenseAnalysis"
evaluateGetExpenseAnalysisReadiness(JobStatus) ==
  IF JobStatus = "SUCCEEDED" \/ JobStatus = "PARTIAL_SUCCESS"
  THEN "startQueriesLambdaStep"
  ELSE IF JobStatus = "IN_PROGRESS" THEN "WaitForTextractExpenseAnalysis"
  ELSE "FailedTextract"

\* Choice EvaluateGetDocumentAnalysisReadiness.
documentChoiceWithoutPartial(JobStatus) ==
  IF JobStatus = "SUCCEEDED" THEN "postProcessingLambdaStep"
  ELSE IF JobStatus = "IN_PROGRESS" THEN "WaitForTextractDocumentAnalysis"
  ELSE "FailedTextractQuery"
documentAnalysisChoice(JobStatus) ==
  IF JobStatus = "SUCCEEDED" \/ JobStatus = "PARTIAL_SUCCESS"
  THEN "postProcessingLambdaStep"
  ELSE IF JobStatus = "IN_PROGRESS" THEN "WaitForTextractDocumentAnalysis"
  ELSE "FailedTextractQuery"

\* Choice StartQueriesChoiceStep.
alwaysWaitForQuery(waitForQuery) == "WaitForTextractDocumentAnalysis"
neverWaitForQuery(waitForQuery) == "postProcessingLambdaStep"
startQueriesChoice(waitForQuery) ==
  IF waitForQuery = TRUE THEN "WaitForTextractDocumentAnalysis"
  ELSE "postProcessingLambdaStep"

\* postProcessingSteps: the Lambda, then PutObjectStep, then EndSuccessStep.
putObjectThenFail(step) ==
  IF step = "postProcessingLambdaStep" THEN "PutObjectStep"
  ELSE "FailedTextractQuery"
putObjectAgain(step) ==
  IF step \in {"postProcessingLambdaStep", "PutObjectStep"}
  THEN "PutObjectStep"
  ELSE "EndSuccessStep"
postProcessingSteps(step) ==
  IF step = "postProcessingLambdaStep" THEN "PutObjectStep"
  ELSE "EndSuccessStep"

\* const TEXTRACT_WAIT_DELAY_IN_S: cdk.Duration = Duration.seconds(15)
TEXTRACT_WAIT_DELAY_IN_S == 15

\* time: WaitTime.duration(TEXTRACT_WAIT_DELAY_IN_S): the seconds the Wait
\* state `step` takes when the execution has sent the status requests `sent`.
waitTimeGrowing(step, sent) == TEXTRACT_WAIT_DELAY_IN_S * (Len(sent) + 1)
waitTime(step, sent) == TEXTRACT_WAIT_DELAY_IN_S

\* The logs of the Wait states and of the status requests keep their first
\* MaxPolls entries.
logged(log, entry) == IF Len(log) < MaxPolls THEN Append(log, entry) ELSE log

\* A state of the workflow that ends the execution in failure: a Fail state,
\* or the state a task that threw leaves the execution in.
FailStates == {"FailedTextract", "FailedTextractQuery"}
EndedInFailure == pc \in FailStates \/ pc = "Aborted"

\* $.queries.Payload before startQueries ran.
NoQueriesPayload ==
  [waitForQuery |-> FALSE, HasQueriesUsed |-> FALSE, queriesUsed |-> <<>>,
   documentAnalysisJobId |-> Undefined]

\* $.Payload before invoicePostProcessing returned.
NoPayload == [invoiceOutput |-> NoSummary, outputKey |-> Undefined]

NoDoc == [HasSummaryFields |-> FALSE, SummaryFields |-> <<>>]

(***************************************************************************)
(* The inputs.                                                             *)
(***************************************************************************)
InputKeys == {"input/sample-invoice.pdf", "input/my-invoice.pdf"}

Query(alias) == [Alias |-> alias]
\* startQueries pushes one sample query; the array is the place to add more.
ConfiguredQueries ==
  {<<>>, <<Query("consumption_in_kwh")>>,
   <<Query("consumption_in_kwh"), Query(Undefined)>>}

Field(type, confidence, text) ==
  [Type |-> type, Confidence |-> confidence, Text |-> text]
Doc(fields) == [HasSummaryFields |-> TRUE, SummaryFields |-> fields]
Page(docs) == [HasExpenseDocuments |-> TRUE, ExpenseDocuments |-> docs]

OtherFields ==
  <<Field("ACCOUNT_NUMBER", 90, "51-0012345678-9"), Field("TOTAL", 95, "101.50"),
    Field("DUE_DATE", 97, "08/01/2023")>>
DocA == Doc(<<Field("VENDOR_NAME", 61, "XceI Energy")>> \o OtherFields)
DocB == Doc(<<Field("VENDOR_NAME", 98, "Xcel Energy")>> \o OtherFields)
DocNoDueDate ==
  Doc(<<Field("VENDOR_NAME", 98, "Xcel Energy"),
        Field("ACCOUNT_NUMBER", 90, "51-0012345678-9"),
        Field("TOTAL", 95, "101.50")>>)

\* A document whose due date was detected without a text.
DocNoDueDateText ==
  Doc(<<Field("VENDOR_NAME", 98, "Xcel Energy"),
        Field("ACCOUNT_NUMBER", 90, "51-0012345678-9"),
        Field("TOTAL", 95, "101.50"), Field("DUE_DATE", 40, Undefined)>>)

\* The results of an expense job the workflow is run on: pages of documents,
\* and the results that miss a part.
WorkflowExpenseResults ==
  (SeqUpTo({Page(docs) : docs \in SeqUpTo({DocA, DocB}, MaxExpenseDocs)},
           MaxExpensePages) \ {<<>>})
  \cup {<<Page(<<DocNoDueDate>>)>>, <<Page(<<DocNoDueDateText>>)>>,
        <<Page(<<NoDoc>>)>>,
        <<[HasExpenseDocuments |-> FALSE, ExpenseDocuments |-> <<>>]>>}

\* The fields of a document getMostConfidentResultBySummaryFieldsType is given.
SummaryFieldSet ==
  {Field(t, c, x) : t \in {"VENDOR_NAME", "DUE_DATE"}, c \in {NoNumber, 61, 98},
                    x \in {Undefined, "Xcel Energy", "XceI Energy"}}
SummaryDocs == {Doc(fields) : fields \in SeqUpTo(SummaryFieldSet, MaxFields)}

\* Blocks: a QUERY block refers to its answer by the id of the answer block.
QueryBlock(alias, ref) ==
  [Id |-> 0, BlockType |-> "QUERY", HasQuery |-> TRUE, Alias |-> alias,
   Relationships |-> IF ref = 0 THEN <<>> ELSE <<[Ids |-> <<ref>>]>>,
   Text |-> Undefined]
ResultBlock(text) ==
  [Id |-> 0, BlockType |-> "QUERY_RESULT", HasQuery |-> FALSE,
   Alias |-> Undefined, Relationships |-> <<>>, Text |-> text]
BlockShapes ==
  {QueryBlock(alias, ref) :
     alias \in {"consumption_in_kwh", Undefined}, ref \in 0..MaxBlocks}
  \cup {ResultBlock(text) : text \in {"842", Undefined}}
\* The ids of the blocks of a job are unique: a block's id is its position.
WithIds(shapes) == [i \in DOMAIN shapes |-> [shapes[i] EXCEPT !.Id = i]]
BlockLists == {WithIds(shapes) : shapes \in SeqUpTo(BlockShapes, MaxBlocks)}
QuerySelections ==
  {<<Query("consumption_in_kwh")>>, <<Query(Undefined)>>,
   <<Query("consumption_in_kwh"), Query(Undefined)>>}

\* The results of a document-analysis job the workflow is run on.
WorkflowBlockLists ==
  {<<>>,
   WithIds(<<QueryBlock("consumption_in_kwh", 2), ResultBlock("842")>>),
   WithIds(<<QueryBlock("consumption_in_kwh", 0)>>)}


\* Invoices that are uploaded again and again, and what Textract finds in
\* them; in any other invoice it may find anything.
KnownInvoices == {"input/xcel-2023-07.pdf", "input/xcel-2023-08.pdf"}
ExpenseResultsOf(key) ==
  IF key = "input/xcel-2023-07.pdf" THEN {<<Page(<<DocA>>)>>}
  ELSE IF key = "input/xcel-2023-08.pdf" THEN {<<Page(<<DocB>>)>>}
  ELSE WorkflowExpenseResults
BlockListsOf(key) ==
  IF key \in KnownInvoices
  THEN {WithIds(<<QueryBlock("consumption_in_kwh", 2), ResultBlock("842")>>)}
  ELSE WorkflowBlockLists

(***************************************************************************)
(* The loop of extractQueryResultsFromAnalyzeDocumentResult.               *)
(***************************************************************************)
\* if (pageToken) params.NextToken = pageToken
requestWithoutToken(token) == 0
requestNextToken(token) == token

\* do { ... } while (pageToken)
stopAfterFirstPage(token) == FALSE
continueFetching(token) == token # 0

\* utilityInvoiceSummary and outputKey, as the Lambda response carries them.
handlerReturn(summary, key) ==
  [invoiceOutput |-> JsonOf(summary), outputKey |-> outputKeyOf(key)]

\* new GetExpenseAnalysisCommand({JobId: jobId}) and
\* new GetDocumentAnalysisCommand({JobId: jobId, ...}): the job asked for.
resultRequest(command, jobId) == [command |-> command, JobId |-> jobId]

\* The condition without its last operand.
hasQueriesUsed(q) == q.HasQueriesUsed

\* event.queries && queriesUsed && documentAnalysisJobId
hasQueriesToResolve(q) == q.HasQueriesUsed /\ ~Falsy(q.documentAnalysisJobId)

(***************************************************************************)
(* The workflow: one execution, started by the upload of an invoice.       *)
(***************************************************************************)
NoJob == [JobId |-> Undefined, JobStatus |-> Undefined]
NoResponse ==
  [API |-> Undefined, command |-> Undefined, JobId |-> Undefined,
   JobStatus |-> Undefined]

\* resultPath: "$.expenseAnalysis.status" ("$.documentAnalysis.status"): the
\* status goes beside what $.expenseAnalysis ($.documentAnalysis) holds.
resultAtParent(job, JobStatus) == [NoJob EXCEPT !.JobStatus = JobStatus]
resultPath(job, JobStatus) == [job EXCEPT !.JobStatus = JobStatus]

\* The generative workflow before it ran: no execution input, nothing in $,
\* no request object, no event.
NoInput == [bucket |-> Undefined, key |-> Undefined, prompt |-> Undefined]
EmptyObject == [k \in {} |-> Undefined]
NoState ==
  [bucket |-> Undefined, key |-> Undefined, prompt |-> Undefined,
   HasImages |-> FALSE, images |-> <<>>,
   Bucket |-> Undefined, Key |-> Undefined,
   HasText |-> FALSE, text |-> <<>>,
   HasResult |-> FALSE, result |-> EmptyObject, metadata |-> NoInput]
NoRequest == [Key |-> Undefined, content |-> <<>>]

\* addImagesToPrompt before it is called: no download started; then its
\* imageLocations, the downloads in the order they resolved, and the one
\* that rejected.
NoDownloads ==
  [started |-> FALSE, imageLocations |-> <<>>, settled |-> <<>>,
   rejected |-> 0]

GenerativeIdle ==
  /\ input = NoInput
  /\ state = NoState
  /\ wip = NoRequest
  /\ rawImages = NoDownloads
  /\ events = <<>>

\* Before the first poll loop: no Wait state entered, no status request sent.
PollsIdle ==
  /\ waits = <<>>
  /\ polls = <<>>

\* The first execution: nothing was sent to Textract or put into the bucket;
\* no other execution runs beside it.
FirstExecution ==
  /\ execution = 1
  /\ putRequests = <<>>
  /\ startRequests = <<>>
  /\ PollsIdle
  /\ instances = <<>>

HandlerIdle ==
  /\ expensePages = <<>>
  /\ docBlocks = <<>>
  /\ docRequests = <<>>
  /\ docResponses = <<>>
  /\ textractBlocks = <<>>
  /\ pageToken = 0
  /\ resultRequests = <<>>
  /\ utilityInvoiceSummary = NoSummary

ResolverIdle ==
  /\ doc = NoDoc
  /\ summaryFieldType = Undefined
  /\ resolved = Undefined

Init ==
  /\ pc = "StartExpenseAnalysis"
  /\ detail \in {[bucket |-> "invoices-bucket", key |-> k] : k \in InputKeys}
  /\ invoiceQueries \in ConfiguredQueries
  /\ expenseAnalysis = NoJob
  /\ queries = NoQueriesPayload
  /\ documentAnalysis = NoJob
  /\ Payload = NoPayload
  /\ s3 = {}
  /\ jobResponse = NoResponse
  /\ HandlerIdle
  /\ ResolverIdle
  /\ GenerativeIdle
  /\ FirstExecution

handlerVars ==
  <<expensePages, docBlocks, docRequests, docResponses, textractBlocks,
    pageToken, resultRequests, utilityInvoiceSummary>>
resolverVars == <<doc, summaryFieldType, resolved>>

\* A task that fails ends the execution: no state has a Catch.
Abort(unchanged) ==
  /\ pc' = "Aborted"
  /\ UNCHANGED unchanged

\* StartExpenseAnalysis: the response goes to $.expenseAnalysis.id, with
\* the JobId it has or without one; a request that is rejected fails the task.
StartExpenseAnalysis ==
  /\ pc = "StartExpenseAnalysis"
  /\ startRequests' = Append(startRequests, "StartExpenseAnalysis")
  /\ \/ /\ pc' = "WaitForTextractExpenseAnalysis"
        /\ \E JobId \in {"expense-job", Undefined} :
             expenseAnalysis' = [expenseAnalysis EXCEPT !.JobId = JobId]
        /\ UNCHANGED <<generativeVars, execution, putRequests, instances,
                       pollVars, detail, invoiceQueries, queries,
                       documentAnalysis, Payload, s3, jobResponse, handlerVars,
                       resolverVars>>
     \/ Abort(<<generativeVars, execution, putRequests, instances, pollVars,
                detail, invoiceQueries, expenseAnalysis, queries,
                documentAnalysis, Payload, s3, jobResponse, handlerVars,
                resolverVars>>)

WaitForTextractExpenseAnalysis ==
  /\ pc = "WaitForTextractExpenseAnalysis"
  /\ waits' = logged(waits, waitTime(pc, polls))
  /\ pc' = "GetExpenseAnalysis"
  /\ UNCHANGED <<generativeVars, execution, putRequests, startRequests,
                 instances, polls, detail, invoiceQueries, expenseAnalysis,
                 queries, documentAnalysis, Payload, s3, jobResponse,
                 handlerVars, resolverVars>>

\* GetExpenseAnalysis: checkTextractJobStatus, result to $.expenseAnalysis.status.
\* The payload's "JobId.$" is $.expenseAnalysis.id.JobId: without it the state
\* fails before the function is invoked.
GetExpenseAnalysis ==
  /\ pc = "GetExpenseAnalysis"
  /\ \/ /\ ~Falsy(expenseAnalysis.JobId)
        /\ polls' = logged(polls, "AnalyzeExpense")
        /\ \/ \E status \in JobStatuses :
                /\ jobResponse' =
                     [API |-> "AnalyzeExpense",
                      command |-> textractCommand("AnalyzeExpense"),
                      JobId |-> expenseAnalysis.JobId, JobStatus |-> status]
                /\ expenseAnalysis' =
                     resultPath(expenseAnalysis, checkTextractJobStatus(status))
                /\ pc' = "EvaluateGetExpenseAnalysisReadiness"
                /\ UNCHANGED <<generativeVars, execution, putRequests,
                               startRequests, instances, waits, detail,
                               invoiceQueries, queries, documentAnalysis,
                               Payload, s3, handlerVars, resolverVars>>
           \/ Abort(<<generativeVars, execution, putRequests, startRequests,
                      instances, waits, detail, invoiceQueries,
                      expenseAnalysis, queries, documentAnalysis, Payload, s3,
                      jobResponse, handlerVars, resolverVars>>)
     \/ /\ Falsy(expenseAnalysis.JobId)
        /\ Abort(<<generativeVars, execution, putRequests, startRequests,
                   instances, pollVars, detail, invoiceQueries,
                   expenseAnalysis, queries, documentAnalysis, Payload, s3,
                   jobResponse, handlerVars, resolverVars>>)

EvaluateGetExpenseAnalysisReadiness ==
  /\ pc = "EvaluateGetExpenseAnalysisReadiness"
  /\ pc' = evaluateGetExpenseAnalysisReadiness(expenseAnalysis.JobStatus)
  /\ UNCHANGED <<generativeVars, execution, putRequests, startRequests,
                 instances, pollVars, detail, invoiceQueries, expenseAnalysis,
                 queries, documentAnalysis, Payload, s3, jobResponse,
                 handlerVars, resolverVars>>

\* startQueriesLambdaStep: the handler's result goes to $.queries.Payload.
startQueriesLambdaStep ==
  /\ pc = "startQueriesLambdaStep"
  /\ \/ /\ Len(invoiceQueries) > 0
        /\ startRequests' = Append(startRequests, "StartDocumentAnalysis")
        /\ \E JobId \in {"document-job", Undefined} :
             /\ ~Falsy(JobId)
             /\ queries' =
                  [waitForQuery |-> TRUE, HasQueriesUsed |-> TRUE,
                   queriesUsed |-> invoiceQueries,
                   documentAnalysisJobId |-> JobId]
        /\ pc' = "StartQueriesChoiceStep"
        /\ UNCHANGED <<generativeVars, execution, putRequests, instances,
                       pollVars, detail, invoiceQueries, expenseAnalysis,
                       documentAnalysis, Payload, s3, jobResponse, handlerVars,
                       resolverVars>>
     \/ /\ Len(invoiceQueries) > 0
        \* the request is rejected, or the response has no JobId: the
        \* handler throws
        /\ startRequests' = Append(startRequests, "StartDocumentAnalysis")
        /\ Abort(<<generativeVars, execution, putRequests, instances, pollVars,
                   detail, invoiceQueries, expenseAnalysis, queries,
                   documentAnalysis, Payload, s3, jobResponse, handlerVars,
                   resolverVars>>)
     \/ /\ Len(invoiceQueries) = 0
        /\ queries' = [NoQueriesPayload EXCEPT !.waitForQuery = FALSE]
        /\ pc' = "StartQueriesChoiceStep"
        /\ UNCHANGED <<generativeVars, execution, putRequests, startRequests,
                       instances, pollVars, detail, invoiceQueries,
                       expenseAnalysis, documentAnalysis, Payload, s3,
                       jobResponse, handlerVars, resolverVars>>

StartQueriesChoiceStep ==
  /\ pc = "StartQueriesChoiceStep"
  /\ pc' = startQueriesChoice(queries.waitForQuery)
  /\ UNCHANGED <<generativeVars, execution, putRequests, startRequests,
                 instances, pollVars, detail, invoiceQueries, expenseAnalysis,
                 queries, documentAnalysis, Payload, s3, jobResponse,
                 handlerVars, resolverVars>>

WaitForTextractDocumentAnalysis ==
  /\ pc = "WaitForTextractDocumentAnalysis"
  /\ waits' = logged(waits, waitTime(pc, polls))
  /\ pc' = "GetDocumentAnalysisStep"
  /\ UNCHANGED <<generativeVars, execution, putRequests, startRequests,
                 instances, polls, detail, invoiceQueries, expenseAnalysis,
                 queries, documentAnalysis, Payload, s3, jobResponse,
                 handlerVars, resolverVars>>

\* GetDocumentAnalysisStep: checkTextractJobStatus, result to
\* $.documentAnalysis.status.
GetDocumentAnalysisStep ==
  /\ pc = "GetDocumentAnalysisStep"
  /\ polls' = logged(polls, "AnalyzeDocument")
  /\ \/ \E status \in JobStatuses :
          /\ jobResponse' =
               [API |-> "AnalyzeDocument",
                command |-> textractCommand("AnalyzeDocument"),
                JobId |-> queries.documentAnalysisJobId, JobStatus |-> status]
          /\ documentAnalysis' =
               resultPath(documentAnalysis, checkTextractJobStatus(status))
          /\ pc' = "EvaluateGetDocumentAnalysisReadiness"
          /\ UNCHANGED <<generativeVars, execution, putRequests, startRequests,
                         instances, waits, detail, invoiceQueries,
                         expenseAnalysis, queries, Payload, s3, handlerVars,
                         resolverVars>>
     \/ Abort(<<generativeVars, execution, putRequests, startRequests,
                instances, waits, detail, invoiceQueries, expenseAnalysis,
                queries, documentAnalysis, Payload, s3, jobResponse,
                handlerVars, resolverVars>>)

EvaluateGetDocumentAnalysisReadiness ==
  /\ pc = "EvaluateGetDocumentAnalysisReadiness"
  /\ pc' = documentAnalysisChoice(documentAnalysis.JobStatus)
  /\ UNCHANGED <<generativeVars, execution, putRequests, startRequests,
                 instances, pollVars, detail, invoiceQueries, expenseAnalysis,
                 queries, documentAnalysis, Payload, s3, jobResponse,
                 handlerVars, resolverVars>>


\* postProcessingLambdaStep: the handler up to its first GetDocumentAnalysis
\* request, or up to its return when there are no queries to resolve.
postProcessingLambdaStep ==
  /\ pc = "postProcessingLambdaStep"
  /\ \/ \E pages \in ExpenseResultsOf(detail.key) :
          LET r == extractSummaryFieldsFromExpenseResult(pages)
          IN  /\ expensePages' = pages
              /\ resultRequests' =
                   <<resultRequest("GetExpenseAnalysisCommand",
                                   expenseAnalysis.JobId)>>
              /\ utilityInvoiceSummary' = r.summary
              /\ IF r.threw
                 THEN /\ pc' = "Aborted"
                      /\ UNCHANGED <<Payload, docBlocks>>
                 ELSE IF hasQueriesToResolve(queries)
                      THEN /\ pc' = "GetDocumentAnalysisCommand"
                           /\ docBlocks' \in BlockListsOf(detail.key)
                           /\ UNCHANGED Payload
                      ELSE /\ pc' = postProcessingSteps(pc)
                           /\ Payload' = handlerReturn(r.summary, detail.key)
                           /\ UNCHANGED docBlocks
              /\ UNCHANGED <<generativeVars, execution, putRequests,
                             startRequests, instances, pollVars, detail,
                             invoiceQueries, expenseAnalysis, queries,
                             documentAnalysis, s3, jobResponse, docRequests,
                             docResponses, textractBlocks, pageToken,
                             resolverVars>>
     \/ Abort(<<generativeVars, execution, putRequests, startRequests,
                instances, pollVars, detail, invoiceQueries, expenseAnalysis,
                queries, documentAnalysis, Payload, s3, jobResponse,
                handlerVars, resolverVars>>)

\* One round of the do-while loop: the request, the response's blocks and
\* token; behind the last page, the two loops over the queries and the return.
GetDocumentAnalysisCommand ==
  /\ pc = "GetDocumentAnalysisCommand"
  /\ LET sent == requestNextToken(pageToken)
         from == IF sent = 0 THEN 1 ELSE sent
     IN  /\ docRequests' = Append(docRequests, sent)
         /\ resultRequests' =
              Append(resultRequests,
                     resultRequest("GetDocumentAnalysisCommand",
                                   queries.documentAnalysisJobId))
         /\ \/ \E last \in (IF Len(docBlocks) = 0 THEN {0} ELSE from..Len(docBlocks)) :
                 LET Blocks == SubSeq(docBlocks, from, last)
                     NextToken == IF last < Len(docBlocks) THEN last + 1 ELSE 0
                     blocks == textractBlocks \o Blocks
                     summary ==
                       resolveQueries(queries.queriesUsed, blocks,
                                      utilityInvoiceSummary)
                 IN  /\ docResponses' = Append(docResponses, NextToken)
                     /\ textractBlocks' = blocks
                     /\ pageToken' = NextToken
                     /\ IF continueFetching(NextToken)
                        THEN UNCHANGED <<pc, utilityInvoiceSummary, Payload>>
                        ELSE /\ utilityInvoiceSummary' = summary
                             /\ Payload' = handlerReturn(summary, detail.key)
                             /\ pc' = postProcessingSteps("postProcessingLambdaStep")
            \/ \* the response has no Blocks (or the request fails): throw
               /\ pc' = "Aborted"
               /\ UNCHANGED <<docResponses, textractBlocks, pageToken,
                              utilityInvoiceSummary, Payload>>
  /\ UNCHANGED <<generativeVars, execution, putRequests, startRequests,
                 instances, pollVars, detail, invoiceQueries, expenseAnalysis,
                 queries, documentAnalysis, s3, jobResponse, expensePages,
                 docBlocks, resolverVars>>

\* S3 PutObject: the object replaces the one the bucket holds at the key.
putObject(bucket, Key, Body) ==
  {o \in bucket : o.Key # Key} \cup {[Key |-> Key, Body |-> Body]}

\* PutObjectStep: Body $.Payload.invoiceOutput at Key $.Payload.outputKey.
PutObjectStep ==
  /\ pc = "PutObjectStep"
  /\ \/ /\ s3' = putObject(s3, Payload.outputKey, Payload.invoiceOutput)
        /\ putRequests' =
             Append(putRequests,
                    [execution |-> execution, document |-> detail.key,
                     Key |-> Payload.outputKey])
        /\ pc' = postProcessingSteps(pc)
        /\ UNCHANGED <<generativeVars, execution, startRequests, instances,
                       pollVars, detail, invoiceQueries, expenseAnalysis,
                       queries, documentAnalysis, Payload, jobResponse,
                       handlerVars, resolverVars>>
     \/ Abort(<<generativeVars, execution, putRequests, startRequests,
                instances, pollVars, detail, invoiceQueries, expenseAnalysis,
                queries, documentAnalysis, Payload, s3, jobResponse,
                handlerVars, resolverVars>>)

Next ==
  \/ StartExpenseAnalysis
  \/ WaitForTextractExpenseAnalysis
  \/ GetExpenseAnalysis
  \/ EvaluateGetExpenseAnalysisReadiness
  \/ startQueriesLambdaStep
  \/ StartQueriesChoiceStep
  \/ WaitForTextractDocumentAnalysis
  \/ GetDocumentAnalysisStep
  \/ EvaluateGetDocumentAnalysisReadiness
  \/ postProcessingLambdaStep
  \/ GetDocumentAnalysisCommand
  \/ PutObjectStep

Spec == Init /\ [][Next]_vars

(***************************************************************************)
(* The generative workflow: bedrockInput and the states of the workflow.   *)
(***************************************************************************)
\* DEFAULT_PROMPT_TEXT: the text of prompt.txt.
defaultPromptText ==
  "Provide a JSON output using only the information prvoided from a utility bills."

\* The prompt of an execution input: none, an empty one, one of the caller.
Prompts == {Undefined, "", "Provide the account id and the due date as JSON."}

\* event.prompt || defaultPromptText
alwaysDefaultPrompt(prompt) == defaultPromptText
promptText(prompt) == IF Falsy(prompt) THEN defaultPromptText ELSE prompt

\* The parts of the content of the message: {type: "text", text} and
\* {type: "image", source: {type: "base64", media_type, data}}.
textPart(text) == [type |-> "text", text |-> text, data |-> Undefined]
imagePart(rawImage) == [type |-> "image", text |-> Undefined, data |-> rawImage]

\* The page images pdfToImage left under wip/.
S3Location(Key) == [Bucket |-> "invoices-bucket", Key |-> Key]
PageImageLists ==
  {<<S3Location("wip/page-1.png")>>,
   <<S3Location("wip/page-1.png"), S3Location("wip/page-2.png")>>}

\* response.Body?.transformToString('base64') || ''
getImageFromS3(location) == "base64:" \o location.Key

\* The values in the order the downloads resolved in.
resolvedInOrder(imageLocations, settled) ==
  [k \in DOMAIN settled |-> getImageFromS3(imageLocations[settled[k]])]

\* Promise.all(imageLocations.map(...)): the value of each download is put
\* at the index of its location as it resolves.
RECURSIVE promiseAll(_, _)
promiseAll(imageLocations, settled) ==
  IF settled = <<>> THEN [i \in DOMAIN imageLocations |-> Undefined]
  ELSE LET i == settled[Len(settled)]
       IN  [promiseAll(imageLocations, SubSeq(settled, 1, Len(settled) - 1))
              EXCEPT ![i] = getImageFromS3(imageLocations[i])]

\* rawImages.forEach(rawImage => content.push(...))
addImagesToPrompt(content, images) ==
  content \o [i \in DOMAIN images |-> imagePart(images[i])]

\* randomUUID() and States.UUID(): version 4 UUIDs.
Uuids == {"0f8fad5b", "7c9e6679", "e02fa0e4"}

\* `wip/${randomUUID()}.json`
wipKey(u) == "wip/" \o u \o ".json"

\* JsonPath.format('output/{}.json', JsonPath.uuid())
generativeOutputKey(u) == "output/" \o u \o ".json"

\* States.UUID() returns a UUID it has not returned to a request before.
anyUuid(requests) == Uuids
uuid(requests) ==
  {u \in Uuids :
     \A i \in DOMAIN requests : requests[i].Key # generativeOutputKey(u)}

(***************************************************************************)
(* The text of the model's response, as the tokens of a JSON text: the     *)
(* braces, the commas and the members "key": value (value a JSON literal). *)
(***************************************************************************)
Tok(t) == [t |-> t, key |-> "", value |-> ""]
Member(key, value) == [t |-> "member", key |-> key, value |-> value]

RECURSIVE joinMembers(_)
joinMembers(members) ==
  IF members = <<>> THEN <<>>
  ELSE IF Len(members) = 1 THEN members
  ELSE <<Head(members), Tok(",")>> \o joinMembers(Tail(members))

\* The JSON text of an object with these members.
jsonText(members) == <<Tok("{")>> \o joinMembers(members) \o <<Tok("}")>>

ParseError == [ok |-> FALSE, value |-> EmptyObject]

\* member ("," member)*: of two members with one key the later one stays.
RECURSIVE parseMembers(_)
parseMembers(tokens) ==
  IF tokens = <<>> \/ Head(tokens).t # "member" THEN ParseError
  ELSE LET first == Head(tokens).key :> Head(tokens).value
       IN  IF Len(tokens) = 1 THEN [ok |-> TRUE, value |-> first]
           ELSE IF tokens[2] # Tok(",") THEN ParseError
           ELSE LET rest == parseMembers(SubSeq(tokens, 3, Len(tokens)))
                IN  IF rest.ok
                    THEN [ok |-> TRUE, value |-> rest.value @@ first]
                    ELSE ParseError

\* A parser that stops behind the first member.
parseFirstMemberOnly(text) ==
  IF Len(text) >= 2 /\ text[2].t = "member"
  THEN [ok |-> TRUE, value |-> text[2].key :> text[2].value]
  ELSE [ok |-> TRUE, value |-> EmptyObject]

\* A parser that takes the members it finds and never fails.
RECURSIVE membersFound(_)
membersFound(text) ==
  IF text = <<>> THEN EmptyObject
  ELSE IF Head(text).t = "member"
       THEN membersFound(Tail(text)) @@ (Head(text).key :> Head(text).value)
       ELSE membersFound(Tail(text))
parseLeniently(text) == [ok |-> TRUE, value |-> membersFound(text)]

\* States.StringToJson on the text of an object.
stringToJson(text) ==
  IF Len(text) < 2 \/ text[1] # Tok("{") \/ text[Len(text)] # Tok("}")
  THEN ParseError
  ELSE IF Len(text) = 2 THEN [ok |-> TRUE, value |-> EmptyObject]
  ELSE parseMembers(SubSeq(text, 2, Len(text) - 1))

\* The members the model answers with (keys of prompt.txt).
Members ==
  {Member("utility_name", "\"Xcel Energy\""), Member("rate_per_kwh", "\"0.12\""),
   Member("rate_per_kwh", "\"unknown\""), Member("tou", "true"),
   Member("solar", "false")}

\* The texts of a response: an object, an object cut off before its end
\* (max_tokens), an object behind a sentence.
ObjectTexts == {jsonText(members) : members \in SeqUpTo(Members, MaxMembers)}
ModelTexts ==
  ObjectTexts
  \cup {SubSeq(text, 1, Len(text) - 1) : text \in ObjectTexts}
  \cup {<<Tok("Here is the JSON output:")>> \o text : text \in ObjectTexts}

\* The response to a known invoice is its object, whole or cut off; to any
\* other invoice, any text.
KnownObject ==
  <<Member("utility_name", "\"Xcel Energy\""), Member("tou", "true")>>
ModelResponsesOf(key) ==
  IF key \in KnownInvoices
  THEN {jsonText(KnownObject), SubSeq(jsonText(KnownObject), 1, 4)}
  ELSE ModelTexts
PageImagesOf(key) ==
  IF key \in KnownInvoices THEN {<<S3Location("wip/page-1.png")>>}
  ELSE PageImageLists

\* The structured workflow at rest.
StructuredIdle ==
  /\ invoiceQueries = <<>>
  /\ expenseAnalysis = NoJob
  /\ queries = NoQueriesPayload
  /\ documentAnalysis = NoJob
  /\ Payload = NoPayload
  /\ jobResponse = NoResponse
  /\ HandlerIdle
  /\ ResolverIdle

structuredVars ==
  <<invoiceQueries, expenseAnalysis, queries, documentAnalysis, Payload,
    jobResponse, handlerVars, resolverVars, startRequests, pollVars>>

\* The execution input: {bucket, key} of the rule, or {Bucket, Key, prompt}
\* of an execution started by hand.
ExecutionInputs(keys, prompts) ==
  {[bucket |-> "invoices-bucket", key |-> key, prompt |-> prompt] :
     key \in keys, prompt \in prompts}

\* $ when the execution starts: its input.
stateOfInput(in) ==
  [NoState EXCEPT !.bucket = in.bucket, !.key = in.key, !.prompt = in.prompt]

InitGenerative ==
  /\ pc = "convertPDF"
  /\ input \in ExecutionInputs(InputKeys, Prompts)
  /\ state = stateOfInput(input)
  /\ detail = [bucket |-> input.bucket, key |-> input.key]
  /\ wip = NoRequest
  /\ rawImages = NoDownloads
  /\ events = <<>>
  /\ s3 = {}
  /\ StructuredIdle
  /\ FirstExecution

\* pdfToImageTask.next(prepBedrockInputTask).next(callBedrockTask)
\*   .next(extractBedrockResult).next(writeToS3).next(publishEvent)
publishBeforeWrite(step) ==
  CASE step = "convertPDF" -> "prepBedrockInputTask"
    [] step = "prepBedrockInputTask" -> "callBedrock"
    [] step = "callBedrock" -> "extractBedrockResult"
    [] step = "extractBedrockResult" -> "publishEvent"
    [] step = "publishEvent" -> "writeToS3"
    [] OTHER -> "Succeeded"
stateMachineDefintion(step) ==
  CASE step = "convertPDF" -> "prepBedrockInputTask"
    [] step = "prepBedrockInputTask" -> "callBedrock"
    [] step = "callBedrock" -> "extractBedrockResult"
    [] step = "extractBedrockResult" -> "writeToS3"
    [] step = "writeToS3" -> "publishEvent"
    [] OTHER -> "Succeeded"

\* convertPDF: pdfToImage, its result goes to $.images.
convertPDF ==
  /\ pc = "convertPDF"
  /\ \/ /\ \E images \in PageImagesOf(input.key) :
             state' = [state EXCEPT !.HasImages = TRUE, !.images = images]
        /\ pc' = stateMachineDefintion(pc)
        /\ UNCHANGED <<input, wip, rawImages, events, s3, execution,
                       putRequests, instances, detail, structuredVars>>
     \/ Abort(<<generativeVars, s3, execution, putRequests, instances, detail,
                structuredVars>>)

\* prepBedrockInputTask: the bedrockInput handler is invoked and starts the
\* downloads of addImagesToPrompt; its result {Bucket, Key} becomes $.
prepBedrockInputTask ==
  /\ pc = "prepBedrockInputTask"
  /\ ~rawImages.started
  /\ \/ /\ rawImages' = [NoDownloads EXCEPT !.started = TRUE,
                                         !.imageLocations = state.images]
        /\ UNCHANGED <<pc, input, state, wip, events, s3, execution,
                       putRequests, instances, detail, structuredVars>>
     \/ Abort(<<generativeVars, s3, execution, putRequests, instances, detail,
                structuredVars>>)

\* The locations whose download has not resolved.
pending ==
  DOMAIN rawImages.imageLocations
    \ {rawImages.settled[k] : k \in DOMAIN rawImages.settled}

\* getImageFromS3 of one location resolves, or rejects: Promise.all rejects
\* with it and so does the handler.
getImageFromS3Settles ==
  /\ pc = "prepBedrockInputTask"
  /\ rawImages.started
  /\ \E i \in pending :
       \/ /\ rawImages' = [rawImages EXCEPT !.settled = Append(@, i)]
          /\ UNCHANGED <<pc, input, state, wip, events, s3, execution,
                         putRequests, instances, detail, structuredVars>>
       \/ /\ rawImages' = [rawImages EXCEPT !.rejected = i]
          /\ Abort(<<input, state, wip, events, s3, execution, putRequests,
                     instances, detail, structuredVars>>)

\* Behind Promise.all: the content, the input, writeToS3 and the return.
bedrockInputReturns ==
  /\ pc = "prepBedrockInputTask"
  /\ rawImages.started
  /\ pending = {}
  /\ \/ \E u \in Uuids :
          LET promptContent == <<textPart(promptText(state.prompt))>>
              content ==
                addImagesToPrompt(
                  promptContent,
                  promiseAll(rawImages.imageLocations, rawImages.settled))
          IN  /\ wip' = [Key |-> wipKey(u), content |-> content]
              /\ state' = [NoState EXCEPT !.Bucket = "invoices-bucket",
                                          !.Key = wipKey(u)]
              /\ pc' = stateMachineDefintion(pc)
              /\ UNCHANGED <<input, rawImages, events, s3, execution,
                             putRequests, instances, detail, structuredVars>>
     \/ \* the upload fails: the handler rejects
        Abort(<<generativeVars, s3, execution, putRequests, instances, detail,
                structuredVars>>)

\* callBedrock: bedrock:invokeModel on the object at $.Bucket/$.Key; the
\* Body of the response becomes $.
callBedrock ==
  /\ pc = "callBedrock"
  /\ \/ /\ state.Key = wip.Key
        /\ \/ \E text \in ModelResponsesOf(input.key) :
                state' = [NoState EXCEPT !.HasText = TRUE, !.text = text]
           \/ state' = NoState
        /\ pc' = stateMachineDefintion(pc)
        /\ UNCHANGED <<input, wip, rawImages, events, s3, execution,
                       putRequests, instances, detail, structuredVars>>
     \/ Abort(<<generativeVars, s3, execution, putRequests, instances, detail,
                structuredVars>>)

\* extractBedrockResult: a Pass state; $ becomes {result, metadata}.  The
\* execution fails when $.content[0].text is missing or is not JSON.
extractBedrockResult ==
  /\ pc = "extractBedrockResult"
  /\ LET parsed == stringToJson(state.text)
     IN  IF state.HasText /\ parsed.ok
         THEN /\ state' = [NoState EXCEPT !.HasResult = TRUE,
                                          !.result = parsed.value,
                                          !.metadata = input]
              /\ pc' = stateMachineDefintion(pc)
         ELSE /\ pc' = "Aborted"
              /\ UNCHANGED state
  /\ UNCHANGED <<input, wip, rawImages, events, s3, execution, putRequests,
                 instances, detail, structuredVars>>

\* writeToS3: s3:putObject of $.result; resultPath is DISCARD.
writeToS3 ==
  /\ pc = "writeToS3"
  /\ \/ /\ \E u \in uuid(putRequests) :
             /\ s3' = putObject(s3, generativeOutputKey(u), state.result)
             /\ putRequests' =
                  Append(putRequests,
                         [execution |-> execution, document |-> input.key,
                          Key |-> generativeOutputKey(u)])
        /\ pc' = stateMachineDefintion(pc)
        /\ UNCHANGED <<generativeVars, execution, instances, detail,
                       structuredVars>>
     \/ Abort(<<generativeVars, s3, execution, putRequests, instances, detail,
                structuredVars>>)

\* detail: TaskInput.fromJsonPathAt('$')
eventOfResult(st) ==
  [detail |-> [result |-> st.result, metadata |-> NoInput],
   detailType |-> "UtilityBillProcessed", source |-> "invoice-to-insights"]
eventOf(st) ==
  [detail |-> [result |-> st.result, metadata |-> st.metadata],
   detailType |-> "UtilityBillProcessed", source |-> "invoice-to-insights"]

\* publishEvent: events:putEvents; the last state of the definition.
publishEvent ==
  /\ pc = "publishEvent"
  /\ \/ /\ events' = Append(events, eventOf(state))
        /\ pc' = stateMachineDefintion(pc)
        /\ UNCHANGED <<input, state, wip, rawImages, s3, execution,
                       putRequests, instances, detail, structuredVars>>
     \/ Abort(<<generativeVars, s3, execution, putRequests, instances, detail,
                structuredVars>>)

NextGenerative ==
  \/ convertPDF
  \/ prepBedrockInputTask
  \/ getImageFromS3Settles
  \/ bedrockInputReturns
  \/ callBedrock
  \/ extractBedrockResult
  \/ writeToS3
  \/ publishEvent

SpecGenerative == InitGenerative /\ [][NextGenerative]_vars

(***************************************************************************)
(* Executions one behind the other: the rule starts an execution of the    *)
(* deployed workflow for every upload under input/, the known invoices     *)
(* being uploaded again and again; the bucket stays.                       *)
(***************************************************************************)
IsGenerative == input # NoInput

Terminated ==
  pc \in {"EndSuccessStep", "Succeeded", "Aborted"} \cup FailStates

\* The execution of the structured workflow the rule starts for an upload.
StartStructured(key) ==
  /\ pc' = "StartExpenseAnalysis"
  /\ detail' = [bucket |-> "invoices-bucket", key |-> key]
  /\ expenseAnalysis' = NoJob
  /\ queries' = NoQueriesPayload
  /\ documentAnalysis' = NoJob
  /\ Payload' = NoPayload
  /\ jobResponse' = NoResponse
  /\ expensePages' = <<>>
  /\ docBlocks' = <<>>
  /\ docRequests' = <<>>
  /\ docResponses' = <<>>
  /\ textractBlocks' = <<>>
  /\ pageToken' = 0
  /\ resultRequests' = <<>>
  /\ utilityInvoiceSummary' = NoSummary
  /\ startRequests' = <<>>
  /\ waits' = <<>>
  /\ polls' = <<>>
  /\ UNCHANGED <<invoiceQueries, resolverVars, generativeVars>>

\* The execution of the generative workflow the rule starts for an upload.
StartGenerative(key) ==
  \E in \in ExecutionInputs({key}, {Undefined}) :
    /\ pc' = "convertPDF"
    /\ input' = in
    /\ state' = stateOfInput(in)
    /\ detail' = [bucket |-> in.bucket, key |-> in.key]
    /\ wip' = NoRequest
    /\ rawImages' = NoDownloads
    /\ events' = <<>>
    /\ UNCHANGED structuredVars

InitRuns ==
  /\ execution = 1
  /\ putRequests = <<>>
  /\ s3 = {}
  /\ PollsIdle
  /\ instances = <<>>
  /\ \/ /\ pc = "StartExpenseAnalysis"
        /\ detail \in {[bucket |-> "invoices-bucket", key |-> k] :
                         k \in KnownInvoices}
        /\ invoiceQueries \in ConfiguredQueries
        /\ expenseAnalysis = NoJob
        /\ queries = NoQueriesPayload
        /\ documentAnalysis = NoJob
        /\ Payload = NoPayload
        /\ jobResponse = NoResponse
        /\ startRequests = <<>>
        /\ HandlerIdle
        /\ ResolverIdle
        /\ GenerativeIdle
     \/ /\ pc = "convertPDF"
        /\ input \in ExecutionInputs(KnownInvoices, {Undefined})
        /\ state = stateOfInput(input)
        /\ detail = [bucket |-> input.bucket, key |-> input.key]
        /\ wip = NoRequest
        /\ rawImages = NoDownloads
        /\ events = <<>>
        /\ startRequests = <<>>
        /\ StructuredIdle

\* ebrule: the next upload starts the next execution.
StartExecution ==
  /\ Terminated
  /\ execution < MaxExecutions
  /\ execution' = execution + 1
  /\ \E key \in KnownInvoices :
       IF IsGenerative THEN StartGenerative(key) ELSE StartStructured(key)
  /\ UNCHANGED <<s3, putRequests, instances>>

NextRuns ==
  \/ Next
  \/ NextGenerative
  \/ StartExecution

SpecRuns == InitRuns /\ [][NextRuns]_vars

(***************************************************************************)
(* One execution of the structured workflow for a known invoice, under     *)
(* the scheduling of the service: the execution does not rest in a state   *)
(* that can be left, and a job that is polled again and again reports, at  *)
(* some poll, a status other than IN_PROGRESS.                             *)
(***************************************************************************)
InitKnown ==
  /\ pc = "StartExpenseAnalysis"
  /\ detail \in {[bucket |-> "invoices-bucket", key |-> k] :
                   k \in KnownInvoices}
  /\ invoiceQueries \in ConfiguredQueries
  /\ expenseAnalysis = NoJob
  /\ queries = NoQueriesPayload
  /\ documentAnalysis = NoJob
  /\ Payload = NoPayload
  /\ s3 = {}
  /\ jobResponse = NoResponse
  /\ HandlerIdle
  /\ ResolverIdle
  /\ GenerativeIdle
  /\ FirstExecution

\* The status request is answered with a status other than IN_PROGRESS.
ExpenseJobEnds ==
  /\ GetExpenseAnalysis
  /\ pc' = "EvaluateGetExpenseAnalysisReadiness"
  /\ jobResponse'.JobStatus # "IN_PROGRESS"
QueryJobEnds ==
  /\ GetDocumentAnalysisStep
  /\ pc' = "EvaluateGetDocumentAnalysisReadiness"
  /\ jobResponse'.JobStatus # "IN_PROGRESS"

SpecFair ==
  /\ InitKnown
  /\ [][Next]_vars
  /\ WF_vars(Next)
  /\ SF_vars(ExpenseJobEnds)
  /\ SF_vars(QueryJobEnds)

(***************************************************************************)
(* Executions side by side: the rule starts an execution for every upload  *)
(* under input/, and an execution does not wait for the others.  The       *)
(* executions are those of one deployed workflow; they share the bucket.   *)
(***************************************************************************)
Instances == 1..MaxInstances

\* The state data of an execution when it starts.
StartedInstance(workflow, key) ==
  [workflow |-> workflow, key |-> key,
   pc |-> IF workflow = "structured" THEN "StartExpenseAnalysis"
          ELSE "convertPDF",
   expenseAnalysis |-> NoJob, queries |-> NoQueriesPayload,
   documentAnalysis |-> NoJob, Payload |-> NoPayload,
   text |-> <<>>, result |-> EmptyObject]

\* The statuses the jobs of the executions side by side report.
InstanceJobStatuses == {"IN_PROGRESS", "SUCCEEDED", "FAILED"}

\* startQueries: what the handler returns for the configured queries.
startQueriesReturn(configured) ==
  IF Len(configured) > 0
  THEN [waitForQuery |-> TRUE, HasQueriesUsed |-> TRUE,
        queriesUsed |-> configured, documentAnalysisJobId |-> "document-job"]
  ELSE [NoQueriesPayload EXCEPT !.waitForQuery = FALSE]

\* invoicePostProcessing: what the handler returns for the results Textract
\* has for the invoice.
postProcessingReturns(e) ==
  {handlerReturn(IF hasQueriesToResolve(e.queries)
                 THEN resolveQueries(e.queries.queriesUsed, blocks,
                        extractSummaryFieldsFromExpenseResult(pages).summary)
                 ELSE extractSummaryFieldsFromExpenseResult(pages).summary,
                 e.key) :
     pages \in ExpenseResultsOf(e.key), blocks \in BlockListsOf(e.key)}

\* The states of the structured workflow before PutObjectStep: the state data
\* an execution with the state data e may leave its state with.
structuredSteps(e, configured) ==
  CASE e.pc = "StartExpenseAnalysis" ->
         {[e EXCEPT !.pc = "WaitForTextractExpenseAnalysis",
                    !.expenseAnalysis.JobId = "expense-job"],
          [e EXCEPT !.pc = "Aborted"]}
    [] e.pc = "WaitForTextractExpenseAnalysis" ->
         {[e EXCEPT !.pc = "GetExpenseAnalysis"]}
    [] e.pc = "GetExpenseAnalysis" ->
         {[e EXCEPT !.pc = "EvaluateGetExpenseAnalysisReadiness",
                    !.expenseAnalysis.JobStatus =
                       checkTextractJobStatus(status)] :
            status \in InstanceJobStatuses}
    [] e.pc = "EvaluateGetExpenseAnalysisReadiness" ->
         {[e EXCEPT !.pc = evaluateGetExpenseAnalysisReadiness(
                              e.expenseAnalysis.JobStatus)]}
    [] e.pc = "startQueriesLambdaStep" ->
         {[e EXCEPT !.pc = "StartQueriesChoiceStep",
                    !.queries = startQueriesReturn(configured)]}
    [] e.pc = "StartQueriesChoiceStep" ->
         {[e EXCEPT !.pc = startQueriesChoice(e.queries.waitForQuery)]}
    [] e.pc = "WaitForTextractDocumentAnalysis" ->
         {[e EXCEPT !.pc = "GetDocumentAnalysisStep"]}
    [] e.pc = "GetDocumentAnalysisStep" ->
         {[e EXCEPT !.pc = "EvaluateGetDocumentAnalysisReadiness",
                    !.documentAnalysis.JobStatus =
                       checkTextractJobStatus(status)] :
            status \in InstanceJobStatuses}
    [] e.pc = "EvaluateGetDocumentAnalysisReadiness" ->
         {[e EXCEPT !.pc = documentAnalysisChoice(
                              e.documentAnalysis.JobStatus)]}
    [] e.pc = "postProcessingLambdaStep" ->
         {[e EXCEPT !.pc = postProcessingSteps(e.pc), !.Payload = r] :
            r \in postProcessingReturns(e)}
    [] OTHER -> {}

\* The states of the generative workflow before writeToS3.
generativeSteps(e) ==
  CASE e.pc \in {"convertPDF", "prepBedrockInputTask"} ->
         {[e EXCEPT !.pc = stateMachineDefintion(e.pc)],
          [e EXCEPT !.pc = "Aborted"]}
    [] e.pc = "callBedrock" ->
         {[e EXCEPT !.pc = stateMachineDefintion(e.pc), !.text = text] :
            text \in ModelResponsesOf(e.key)}
    [] e.pc = "extractBedrockResult" ->
         {IF stringToJson(e.text).ok
          THEN [e EXCEPT !.pc = stateMachineDefintion(e.pc),
                         !.result = stringToJson(e.text).value]
          ELSE [e EXCEPT !.pc = "Aborted"]}
    [] OTHER -> {}

InitConcurrent ==
  /\ pc = "Executions"
  /\ \E workflow \in {"structured", "generative"} :
       /\ instances \in
            [Instances -> {StartedInstance(workflow, key) :
                             key \in KnownInvoices}]
       /\ invoiceQueries \in
            (IF workflow = "structured" THEN ConfiguredQueries ELSE {<<>>})
  /\ detail = [bucket |-> "invoices-bucket", key |-> Undefined]
  /\ expenseAnalysis = NoJob
  /\ queries = NoQueriesPayload
  /\ documentAnalysis = NoJob
  /\ Payload = NoPayload
  /\ jobResponse = NoResponse
  /\ s3 = {}
  /\ execution = 1
  /\ putRequests = <<>>
  /\ startRequests = <<>>
  /\ PollsIdle
  /\ HandlerIdle
  /\ ResolverIdle
  /\ GenerativeIdle

\* What the states of the executions side by side leave alone: the state of
\* the one execution of the other specifications.
oneExecutionVars ==
  <<pc, detail, execution, structuredVars, input, state, wip, rawImages>>

\* An execution leaves a state that puts nothing into the bucket.
InstanceStep(i) ==
  /\ \E e \in structuredSteps(instances[i], invoiceQueries)
              \cup generativeSteps(instances[i]) :
       instances' = [instances EXCEPT ![i] = e]
  /\ UNCHANGED <<oneExecutionVars, s3, putRequests, events>>

\* PutObjectStep of an execution of the structured workflow.
InstancePutObjectStep(i) ==
  LET e == instances[i]
  IN  /\ e.pc = "PutObjectStep"
      /\ \/ /\ s3' = putObject(s3, e.Payload.outputKey, e.Payload.invoiceOutput)
            /\ putRequests' =
                 Append(putRequests,
                        [execution |-> i, document |-> e.key,
                         Key |-> e.Payload.outputKey])
            /\ instances' =
                 [instances EXCEPT ![i].pc = postProcessingSteps(e.pc)]
         \/ /\ instances' = [instances EXCEPT ![i].pc = "Aborted"]
            /\ UNCHANGED <<s3, putRequests>>
      /\ UNCHANGED <<oneExecutionVars, events>>

\* writeToS3 of an execution of the generative workflow.
InstanceWriteToS3(i) ==
  LET e == instances[i]
  IN  /\ e.pc = "writeToS3"
      /\ \/ /\ \E u \in uuid(putRequests) :
                 /\ s3' = putObject(s3, generativeOutputKey(u), e.result)
                 /\ putRequests' =
                      Append(putRequests,
                             [execution |-> i, document |-> e.key,
                              Key |-> generativeOutputKey(u)])
            /\ instances' =
                 [instances EXCEPT ![i].pc = stateMachineDefintion(e.pc)]
         \/ /\ instances' = [instances EXCEPT ![i].pc = "Aborted"]
            /\ UNCHANGED <<s3, putRequests>>
      /\ UNCHANGED <<oneExecutionVars, events>>

\* publishEvent of an execution of the generative workflow.
InstancePublishEvent(i) ==
  LET e == instances[i]
      metadata == [NoInput EXCEPT !.bucket = "invoices-bucket", !.key = e.key]
  IN  /\ e.pc = "publishEvent"
      /\ \/ /\ events' =
                 Append(events,
                        eventOf([result |-> e.result, metadata |-> metadata]))
            /\ instances' =
                 [instances EXCEPT ![i].pc = stateMachineDefintion(e.pc)]
         \/ /\ instances' = [instances EXCEPT ![i].pc = "Aborted"]
            /\ UNCHANGED events
      /\ UNCHANGED <<oneExecutionVars, s3, putRequests>>

NextConcurrent ==
  \E i \in Instances :
    \/ InstanceStep(i)
    \/ InstancePutObjectStep(i)
    \/ InstanceWriteToS3(i)
    \/ InstancePublishEvent(i)

SpecConcurrent == InitConcurrent /\ [][NextConcurrent]_vars

(***************************************************************************)
(* getMostConfidentResultBySummaryFieldsType on the documents of           *)
(* SummaryDocs.                                                            *)
(***************************************************************************)
WorkflowIdle ==
  /\ detail = [bucket |-> "invoices-bucket", key |-> "input/sample-invoice.pdf"]
  /\ invoiceQueries = <<>>
  /\ expenseAnalysis = NoJob
  /\ documentAnalysis = NoJob
  /\ Payload = NoPayload
  /\ s3 = {}
  /\ jobResponse = NoResponse
  /\ GenerativeIdle
  /\ FirstExecution

InitSummary ==
  /\ pc = "getMostConfidentResultBySummaryFieldsType"
  /\ doc \in SummaryDocs
  /\ summaryFieldType = Undefined
  /\ resolved = Undefined
  /\ queries = NoQueriesPayload
  /\ WorkflowIdle
  /\ HandlerIdle

ResolveSummaryField ==
  /\ pc = "getMostConfidentResultBySummaryFieldsType"
  /\ \E type \in SummaryFieldTypes :
       /\ summaryFieldType' = type
       /\ resolved' = getMostConfidentResultBySummaryFieldsType(doc, type)
  /\ pc' = "returned"
  /\ UNCHANGED <<generativeVars, execution, putRequests, startRequests,
                 instances, pollVars, detail, invoiceQueries, expenseAnalysis,
                 queries, documentAnalysis, Payload, s3, jobResponse,
                 handlerVars, doc>>

NextSummary == ResolveSummaryField

SpecSummary == InitSummary /\ [][NextSummary]_vars

(***************************************************************************)
(* extractQueryResultsFromAnalyzeDocumentResult on the block lists of      *)
(* BlockLists and the queries of QuerySelections.                          *)
(***************************************************************************)
SummaryA == extractValuesFromAnalyzeExpense(Page(<<DocA>>)).summary

InitQueries ==
  /\ pc = "GetDocumentAnalysisCommand"
  /\ docBlocks \in BlockLists
  /\ \E qs \in QuerySelections :
       queries = [waitForQuery |-> TRUE, HasQueriesUsed |-> TRUE,
                  queriesUsed |-> qs, documentAnalysisJobId |-> "document-job"]
  /\ expensePages = <<Page(<<DocA>>)>>
  /\ utilityInvoiceSummary = SummaryA
  /\ docRequests = <<>>
  /\ docResponses = <<>>
  /\ textractBlocks = <<>>
  /\ pageToken = 0
  /\ WorkflowIdle
  /\ resultRequests =
       <<resultRequest("GetExpenseAnalysisCommand", expenseAnalysis.JobId)>>
  /\ ResolverIdle

NextQueries == GetDocumentAnalysisCommand

SpecQueries == InitQueries /\ [][NextQueries]_vars


(***************************************************************************)
(* invoicePostProcessing on the events its event type admits: $.queries    *)
(* is optional, and so are queriesUsed and documentAnalysisJobId in it;     *)
(* behind it, PutObjectStep.                                               *)
(***************************************************************************)
HandlerEvents ==
  {NoQueriesPayload}
  \cup {[waitForQuery |-> TRUE, HasQueriesUsed |-> TRUE, queriesUsed |-> qs,
          documentAnalysisJobId |-> id] :
          qs \in ConfiguredQueries, id \in {"document-job", Undefined}}
  \cup {[waitForQuery |-> TRUE, HasQueriesUsed |-> FALSE, queriesUsed |-> <<>>,
          documentAnalysisJobId |-> "document-job"]}

InitHandler ==
  /\ pc = "postProcessingLambdaStep"
  /\ detail \in {[bucket |-> "invoices-bucket", key |-> k] : k \in InputKeys}
  /\ invoiceQueries = <<>>
  /\ expenseAnalysis = [JobId |-> "expense-job", JobStatus |-> "SUCCEEDED"]
  /\ queries \in HandlerEvents
  /\ documentAnalysis = NoJob
  /\ Payload = NoPayload
  /\ s3 = {}
  /\ jobResponse = NoResponse
  /\ HandlerIdle
  /\ ResolverIdle
  /\ GenerativeIdle
  /\ FirstExecution

NextHandler ==
  \/ postProcessingLambdaStep
  \/ GetDocumentAnalysisCommand
  \/ PutObjectStep

SpecHandler == InitHandler /\ [][NextHandler]_vars


(***************************************************************************)
(* The workflow's branches and its output.                                 *)
(***************************************************************************)

\* C1: an execution that ended in failure (a Fail state, or a task or handler
\* that threw) has put no object into the bucket.
C1_NoOutputOnFailure == EndedInFailure => s3 = {}

\* The record was built and PutObjectStep itself failed: nothing is written.
C1_Witness == pc = "Aborted" /\ Payload # NoPayload /\ s3 = {}

\* C2: from the choice behind the expense poll the workflow goes to the query
\* submission on SUCCEEDED or PARTIAL_SUCCESS, back to the expense wait on
\* IN_PROGRESS and to the Fail state on FAILED; a poll that returns leads to
\* that choice.
C2_ExpensePollBranches ==
  [][/\ (pc = "GetExpenseAnalysis" /\ pc' # "Aborted")
        => pc' = "EvaluateGetExpenseAnalysisReadiness"
     /\ pc = "EvaluateGetExpenseAnalysisReadiness"
        => /\ expenseAnalysis.JobStatus \in {"SUCCEEDED", "PARTIAL_SUCCESS"}
              => pc' = "startQueriesLambdaStep"
           /\ expenseAnalysis.JobStatus = "IN_PROGRESS"
              => pc' = "WaitForTextractExpenseAnalysis"
           /\ expenseAnalysis.JobStatus = "FAILED"
              => pc' = "FailedTextract"]_vars

C2_Witness ==
  /\ pc = "startQueriesLambdaStep"
  /\ expenseAnalysis.JobStatus = "PARTIAL_SUCCESS"

\* C3: from the choice behind the query poll the workflow goes to
\* post-processing on SUCCEEDED or PARTIAL_SUCCESS, back to the query wait on
\* IN_PROGRESS and to the Fail state on FAILED; a poll that returns leads to
\* that choice.
C3_QueryPollBranches ==
  [][/\ (pc = "GetDocumentAnalysisStep" /\ pc' # "Aborted")
        => pc' = "EvaluateGetDocumentAnalysisReadiness"
     /\ pc = "EvaluateGetDocumentAnalysisReadiness"
        => /\ documentAnalysis.JobStatus \in {"SUCCEEDED", "PARTIAL_SUCCESS"}
              => pc' = "postProcessingLambdaStep"
           /\ documentAnalysis.JobStatus = "IN_PROGRESS"
              => pc' = "WaitForTextractDocumentAnalysis"
           /\ documentAnalysis.JobStatus = "FAILED"
              => pc' = "FailedTextractQuery"]_vars

C3_Witness ==
  /\ pc = "postProcessingLambdaStep"
  /\ documentAnalysis.JobStatus = "PARTIAL_SUCCESS"

\* C4: on a status other than SUCCEEDED, PARTIAL_SUCCESS and IN_PROGRESS both
\* choices go to their Fail state, a response without a status is recorded as
\* FAILED, and a Fail state is never left.
ListedStatuses == {"SUCCEEDED", "PARTIAL_SUCCESS", "IN_PROGRESS"}

C4_UnlistedStatusFails ==
  [][/\ (pc = "EvaluateGetExpenseAnalysisReadiness"
         /\ expenseAnalysis.JobStatus \notin ListedStatuses)
        => pc' = "FailedTextract"
     /\ (pc = "EvaluateGetDocumentAnalysisReadiness"
         /\ documentAnalysis.JobStatus \notin ListedStatuses)
        => pc' = "FailedTextractQuery"
     /\ (pc' = "EvaluateGetExpenseAnalysisReadiness"
         /\ jobResponse'.JobStatus \notin ListedStatuses)
        => expenseAnalysis'.JobStatus \notin ListedStatuses
     /\ (pc' = "EvaluateGetDocumentAnalysisReadiness"
         /\ jobResponse'.JobStatus \notin ListedStatuses)
        => documentAnalysis'.JobStatus \notin ListedStatuses
     /\ (pc' = "EvaluateGetExpenseAnalysisReadiness"
         /\ jobResponse'.JobStatus = Undefined)
        => expenseAnalysis'.JobStatus = "FAILED"
     /\ (pc' = "EvaluateGetDocumentAnalysisReadiness"
         /\ jobResponse'.JobStatus = Undefined)
        => documentAnalysis'.JobStatus = "FAILED"
     /\ pc \in FailStates => pc' = pc]_vars

C4_Witness ==
  /\ pc = "FailedTextractQuery"
  /\ jobResponse.JobStatus = Undefined
  /\ documentAnalysis.JobStatus = "FAILED"


(***************************************************************************)
(* The structured fields.                                                  *)
(***************************************************************************)
\* The candidates of a type among a document's fields, by position.
Candidates(d, type) ==
  {i \in DOMAIN d.SummaryFields : d.SummaryFields[i].Type = type}

\* No candidate of the type has a higher confidence (a missing one counts 0).
IsMaximal(d, type, i) ==
  \A j \in Candidates(d, type) :
    ConfidenceOrZero(d.SummaryFields[j]) <= ConfidenceOrZero(d.SummaryFields[i])

\* The field of the summary a type of summary field goes to.
SummaryValue(summary, type) ==
  CASE type = "VENDOR_NAME" -> summary.UtilityName
    [] type = "ACCOUNT_NUMBER" -> summary.AccountId
    [] type = "TOTAL" -> summary.TotalCharges
    [] type = "DUE_DATE" -> summary.DueDate

C6_MissingTypeResolvesToUnknown ==
  (/\ expensePages # <<>>
   /\ expensePages[1].HasExpenseDocuments
   /\ Len(expensePages[1].ExpenseDocuments) > 0
   /\ expensePages[1].ExpenseDocuments[1].HasSummaryFields)
  => \A type \in SummaryFieldTypes :
       Candidates(expensePages[1].ExpenseDocuments[1], type) = {}
       => /\ utilityInvoiceSummary # NoSummary
          /\ SummaryValue(utilityInvoiceSummary, type) = "unknown"


(***************************************************************************)
(* The query answers.                                                      *)
(***************************************************************************)
\* The handler returned its record.
Returned == pc = "PutObjectStep"

OutputMetadata == Payload.invoiceOutput.ConsumptionMetadata

\* The key a query's answer is put under.
KeyOf(query) ==
  IF query.Alias \in {Undefined, ""} THEN "alias_undefined" ELSE query.Alias

\* The block carries the query's alias.
Matches(block, query) == block.HasQuery /\ block.Alias = query.Alias

\* The first id of the block's first relationship, 0 when there is none.
FirstRef(block) ==
  IF Len(block.Relationships) > 0 /\ Len(block.Relationships[1].Ids) > 0
  THEN block.Relationships[1].Ids[1]
  ELSE 0

\* Block i is the first block, in fetched order, that carries the query's
\* alias and a relationship id.
IsSelected(i, query) ==
  /\ Matches(docBlocks[i], query)
  /\ FirstRef(docBlocks[i]) # 0
  /\ \A k \in 1..(i - 1) :
       ~(Matches(docBlocks[k], query) /\ FirstRef(docBlocks[k]) # 0)

IsAnswer(block, id) == block.BlockType = "QUERY_RESULT" /\ block.Id = id

\* C7 as stated: a query whose alias is carried by a QUERY block whose first
\* relationship id is the id of a QUERY_RESULT block (with a text) has that
\* text under its alias in the output's ConsumptionMetadata.
C7_LinkedPairIsInOutput ==
  Returned
  => \A n \in DOMAIN queries.queriesUsed : \A i, j \in DOMAIN docBlocks :
       (/\ Matches(docBlocks[i], queries.queriesUsed[n])
        /\ FirstRef(docBlocks[i]) # 0
        /\ IsAnswer(docBlocks[j], FirstRef(docBlocks[i]))
        /\ docBlocks[j].Text # Undefined)
       => /\ KeyOf(queries.queriesUsed[n]) \in DOMAIN OutputMetadata
          /\ OutputMetadata[KeyOf(queries.queriesUsed[n])] = docBlocks[j].Text

\* C7, amended: when the first block, in fetched order, that carries the
\* query's alias and a relationship id refers to a QUERY_RESULT block (with a
\* text), the output's ConsumptionMetadata has that text under the alias.
C7_SelectedPairIsInOutput ==
  Returned
  => \A n \in DOMAIN queries.queriesUsed : \A i, j \in DOMAIN docBlocks :
       (/\ IsSelected(i, queries.queriesUsed[n])
        /\ IsAnswer(docBlocks[j], FirstRef(docBlocks[i]))
        /\ docBlocks[j].Text # Undefined)
       => /\ KeyOf(queries.queriesUsed[n]) \in DOMAIN OutputMetadata
          /\ OutputMetadata[KeyOf(queries.queriesUsed[n])] = docBlocks[j].Text

\* Two blocks carry the alias and refer to different blocks; the answer the
\* first one refers to is in the output.
C7_Witness ==
  /\ Returned
  /\ \E i, j, r \in DOMAIN docBlocks :
       /\ i < j
       /\ Matches(docBlocks[i], Query("consumption_in_kwh"))
       /\ Matches(docBlocks[j], Query("consumption_in_kwh"))
       /\ FirstRef(docBlocks[i]) = r
       /\ FirstRef(docBlocks[j]) \notin {0, r}
       /\ IsAnswer(docBlocks[r], r)
       /\ docBlocks[r].Text = "842"
  /\ Query("consumption_in_kwh") \in
       {queries.queriesUsed[n] : n \in DOMAIN queries.queriesUsed}
  /\ "consumption_in_kwh" \in DOMAIN OutputMetadata
  /\ OutputMetadata["consumption_in_kwh"] = "842"

\* No block carries the alias, or none that does has a relationship id, or
\* the id referred to is the id of no QUERY_RESULT block.
Unresolvable(query) ==
  \/ \A i \in DOMAIN docBlocks : ~Matches(docBlocks[i], query)
  \/ \A i \in DOMAIN docBlocks :
       Matches(docBlocks[i], query) => FirstRef(docBlocks[i]) = 0
  \/ \E i \in DOMAIN docBlocks :
       /\ IsSelected(i, query)
       /\ \A j \in DOMAIN docBlocks :
            ~IsAnswer(docBlocks[j], FirstRef(docBlocks[i]))

Resolvable(query) ==
  \E i, j \in DOMAIN docBlocks :
    /\ IsSelected(i, query)
    /\ IsAnswer(docBlocks[j], FirstRef(docBlocks[i]))
    /\ docBlocks[j].Text # Undefined

\* C8: the handler returns although a query is unresolvable (it throws only
\* on a response without Blocks); the output's ConsumptionMetadata has no
\* entry for that query's alias, and has one for every query that resolves.
C8_UnresolvedAliasIsOmitted ==
  /\ Returned
     => \A n \in DOMAIN queries.queriesUsed :
          /\ Unresolvable(queries.queriesUsed[n])
             => KeyOf(queries.queriesUsed[n]) \notin DOMAIN OutputMetadata
          /\ Resolvable(queries.queriesUsed[n])
             => KeyOf(queries.queriesUsed[n]) \in DOMAIN OutputMetadata
  /\ pc = "Aborted" => Len(docRequests) = Len(docResponses) + 1
  /\ pc # "Aborted" => Len(docRequests) = Len(docResponses)

\* The first query's block has no relationship, the second query resolves.
C8_Witness ==
  /\ Returned
  /\ queries.queriesUsed = <<Query("consumption_in_kwh"), Query(Undefined)>>
  /\ \E i \in DOMAIN docBlocks : Matches(docBlocks[i], Query("consumption_in_kwh"))
  /\ \A i \in DOMAIN docBlocks :
       Matches(docBlocks[i], Query("consumption_in_kwh"))
       => FirstRef(docBlocks[i]) = 0
  /\ DOMAIN OutputMetadata = {"alias_undefined"}

\* The page a block came with: the number of responses up to its own.
PageOf(i) ==
  1 + Cardinality({p \in DOMAIN docResponses :
                     docResponses[p] # 0 /\ docResponses[p] <= i})

\* C9: the first request carries no token, every later one the NextToken of
\* the response before it; the handler resolves and returns only behind a
\* response without NextToken, with the blocks of all pages accumulated, and
\* its answers are those resolved over the blocks of all pages.
C9_AllPagesBeforeResolution ==
  /\ docRequests # <<>> => docRequests[1] = 0
  /\ \A p \in 2..Len(docRequests) :
       docResponses[p - 1] # 0 /\ docRequests[p] = docResponses[p - 1]
  /\ pc = "GetDocumentAnalysisCommand"
     => /\ Payload = NoPayload
        /\ ~utilityInvoiceSummary.HasConsumptionMetadata
        /\ docResponses # <<>> => docResponses[Len(docResponses)] # 0
  /\ Returned
     => /\ docResponses[Len(docResponses)] = 0
        /\ textractBlocks = docBlocks
        /\ \A n \in DOMAIN queries.queriesUsed :
             Resolvable(queries.queriesUsed[n])
             => KeyOf(queries.queriesUsed[n]) \in DOMAIN OutputMetadata

\* The QUERY block came with the first page, its answer with a later one.
C9_Witness ==
  /\ Returned
  /\ Len(docRequests) >= 2
  /\ \E i, j \in DOMAIN docBlocks :
       /\ IsSelected(i, Query("consumption_in_kwh"))
       /\ IsAnswer(docBlocks[j], FirstRef(docBlocks[i]))
       /\ PageOf(i) = 1
       /\ PageOf(j) > 1
       /\ queries.queriesUsed[1] = Query("consumption_in_kwh")
       /\ "consumption_in_kwh" \in DOMAIN OutputMetadata
       /\ OutputMetadata["consumption_in_kwh"] = docBlocks[j].Text


(***************************************************************************)
(* The result set the structured fields are resolved over.                 *)
(***************************************************************************)
\* The summary fields of every document of every result page.
AllSummaryFields ==
  UNION {UNION {{expensePages[p].ExpenseDocuments[d].SummaryFields[i] :
                   i \in DOMAIN expensePages[p].ExpenseDocuments[d].SummaryFields} :
                d \in DOMAIN expensePages[p].ExpenseDocuments} :
         p \in DOMAIN expensePages}

TextOrUndefined(field) ==
  IF field.Text \in {Undefined, ""} THEN "undefined" ELSE field.Text

\* The handler built its summary from the expense result.
SummaryBuilt == expensePages # <<>> /\ utilityInvoiceSummary # NoSummary

\* C10 as stated: each structured field is the text of a candidate of maximal
\* confidence among the summary fields of all pages and documents.
C10_WinnerOverAllPages ==
  SummaryBuilt
  => \A type \in SummaryFieldTypes :
       \E f \in AllSummaryFields :
         /\ f.Type = type
         /\ \A g \in AllSummaryFields :
              g.Type = type => ConfidenceOrZero(g) <= ConfidenceOrZero(f)
         /\ SummaryValue(utilityInvoiceSummary, type) = TextOrUndefined(f)

\* C10, amended: each structured field is the text of a candidate of maximal
\* confidence among the summary fields of the first document of the first
\* result page; no other document or page is read.
C10_WinnerOverFirstDocument ==
  SummaryBuilt
  => LET first == expensePages[1].ExpenseDocuments[1]
     IN  \A type \in SummaryFieldTypes :
           \E i \in Candidates(first, type) :
             /\ IsMaximal(first, type, i)
             /\ SummaryValue(utilityInvoiceSummary, type) =
                  TextOrUndefined(first.SummaryFields[i])

\* A later page holds a vendor name of higher confidence than the first
\* document's, and the record written has the first document's.
C10_Witness ==
  /\ pc = "EndSuccessStep"
  /\ Len(expensePages) >= 2
  /\ expensePages[1].ExpenseDocuments[1] = DocA
  /\ expensePages[2].ExpenseDocuments = <<DocB>>
  /\ \E object \in s3 : object.Body.UtilityName = "XceI Energy"


(***************************************************************************)
(* The submission of the queries.                                          *)
(***************************************************************************)
\* The StartDocumentAnalysis requests among the requests sent so far.
RECURSIVE CountOf(_, _)
CountOf(x, seq) ==
  IF seq = <<>> THEN 0
  ELSE (IF Head(seq) = x THEN 1 ELSE 0) + CountOf(x, Tail(seq))

QueryPollLoop ==
  {"WaitForTextractDocumentAnalysis", "GetDocumentAnalysisStep",
   "EvaluateGetDocumentAnalysisReadiness"}

\* C11: with no query configured, startQueries sends no StartDocumentAnalysis
\* request and returns waitForQuery = false without a job id, and the choice
\* behind it goes to post-processing, so that the wait and poll states of the
\* query job are never entered; with a query configured it sends one request
\* and, when it returns, the choice goes to the wait state, which is only ever
\* entered with exactly one job submitted.
C11_QuerySubmission ==
  [][/\ (pc = "startQueriesLambdaStep" /\ Len(invoiceQueries) = 0) =>
          /\ startRequests' = startRequests
          /\ queries'.waitForQuery = FALSE
          /\ queries'.documentAnalysisJobId = Undefined
          /\ pc' = "StartQueriesChoiceStep"
     /\ (pc = "StartQueriesChoiceStep" /\ Len(invoiceQueries) = 0) =>
          pc' = "postProcessingLambdaStep"
     /\ (pc = "startQueriesLambdaStep" /\ Len(invoiceQueries) > 0) =>
          /\ startRequests' = Append(startRequests, "StartDocumentAnalysis")
          /\ pc' # "Aborted" =>
                /\ pc' = "StartQueriesChoiceStep"
                /\ queries'.waitForQuery = TRUE
                /\ queries'.documentAnalysisJobId # Undefined
     /\ (pc = "StartQueriesChoiceStep" /\ Len(invoiceQueries) > 0) =>
          pc' = "WaitForTextractDocumentAnalysis"
     /\ pc' \in QueryPollLoop =>
          /\ Len(invoiceQueries) > 0
          /\ CountOf("StartDocumentAnalysis", startRequests') = 1]_vars

\* An execution without queries is about to post-process, having started
\* the expense job only.
C11_Witness ==
  /\ pc = "postProcessingLambdaStep"
  /\ Len(invoiceQueries) = 0
  /\ queries.waitForQuery = FALSE
  /\ startRequests = <<"StartExpenseAnalysis">>


(***************************************************************************)
(* The merge of the query answers into the summary.                        *)
(***************************************************************************)
SummaryDerived(summary) ==
  <<summary.UtilityName, summary.AccountId, summary.TotalCharges,
    summary.DueDate>>

\* The query's selected block refers to a QUERY_RESULT block.
HasAnswerBlock(query) ==
  \E i, j \in DOMAIN docBlocks :
    /\ IsSelected(i, query)
    /\ IsAnswer(docBlocks[j], FirstRef(docBlocks[i]))

\* C12: the rounds of extractQueryResultsFromAnalyzeDocumentResult leave
\* UtilityName, AccountId, TotalCharges and DueDate of the summary as they
\* were and remove no entry of ConsumptionMetadata; the record returned has
\* the four fields of the summary the structured extraction built, and an
\* entry for every query whose selected block refers to a QUERY_RESULT block,
\* the earlier queries of the list included.
C12_MergeKeepsSummaryAndEntries ==
  [][/\ SummaryDerived(utilityInvoiceSummary') =
          SummaryDerived(utilityInvoiceSummary)
     /\ DOMAIN utilityInvoiceSummary.ConsumptionMetadata
          \subseteq DOMAIN utilityInvoiceSummary'.ConsumptionMetadata
     /\ pc' = "PutObjectStep"
        => /\ SummaryDerived(Payload'.invoiceOutput) =
                SummaryDerived(utilityInvoiceSummary)
           /\ \A n \in DOMAIN queries.queriesUsed :
                HasAnswerBlock(queries.queriesUsed[n])
                => KeyOf(queries.queriesUsed[n]) \in
                     DOMAIN utilityInvoiceSummary'.ConsumptionMetadata]_vars

\* Two queries were resolved: the record has the entries of both and the
\* utility name the structured extraction found.
C12_Witness ==
  /\ Returned
  /\ Len(queries.queriesUsed) = 2
  /\ DOMAIN utilityInvoiceSummary.ConsumptionMetadata =
       {"consumption_in_kwh", "alias_undefined"}
  /\ Payload.invoiceOutput.UtilityName = "XceI Energy"
  /\ Payload.invoiceOutput.DueDate = "08/01/2023"


(***************************************************************************)
(* The records the workflow writes.                                        *)
(***************************************************************************)
\* C13: every object PutObjectStep has put into the bucket is a record whose
\* UtilityName, AccountId, TotalCharges and DueDate are all present, each
\* with a string for its value (a key whose value is undefined is left out
\* of the JSON written).
C13_CanonicalKeysPresent ==
  \A o \in s3 :
    \A value \in {o.Body.UtilityName, o.Body.AccountId,
                  o.Body.TotalCharges, o.Body.DueDate} :
      value \notin {Undefined, Thrown}

\* A record was written for an invoice whose due date has no text.
C13_Witness ==
  /\ pc = "EndSuccessStep"
  /\ firstDocument(expensePages[1]) = DocNoDueDateText
  /\ \E o \in s3 : o.Body.DueDate = "undefined" /\ o.Body.TotalCharges = "101.50"


(***************************************************************************)
(* The generative workflow: the record and the event.                      *)
(***************************************************************************)
\* The keys prompt.txt asks for.
CanonicalKeys ==
  {"name", "street_address", "city", "state", "zip_code", "utility_name",
   "account_id", "kwh_used_this_month", "kwh_used_in_the_past_year",
   "current_monthly_cost", "due_date", "rate_per_kwh", "tou", "solar"}

DefaultOf(key) == IF key \in {"tou", "solar"} THEN "false" ELSE "\"unknown\""

\* The text is the text of a JSON object.
IsObjectText(text) == text \in ObjectTexts

\* The keys of the members of the text, and the value of the last member
\* of a key.
MemberPositions(text, key) ==
  {i \in DOMAIN text : text[i].t = "member" /\ text[i].key = key}
PayloadKeys(text) ==
  {text[i].key : i \in {k \in DOMAIN text : text[k].t = "member"}}
PayloadValue(text, key) ==
  text[CHOOSE i \in MemberPositions(text, key) :
         \A k \in MemberPositions(text, key) : k <= i].value

C15_InvalidJsonFailsExecution ==
  [][/\ (pc = "extractBedrockResult" /\ state.HasText
         /\ ~IsObjectText(state.text))
        => /\ pc' = "Aborted"
           /\ s3 = {} /\ s3' = {}
           /\ putRequests' = <<>>
           /\ events = <<>> /\ events' = <<>>
     /\ pc = "Aborted" => pc' = "Aborted"]_vars

\* The execution failed on a response that was cut off before its end.
C15_Witness ==
  /\ pc = "Aborted"
  /\ state.HasText
  /\ state.text = <<Tok("{"), Member("utility_name", "\"Xcel Energy\"")>>
  /\ s3 = {}
  /\ events = <<>>

\* The place of a state in the chain of the definition.
Rank(step) ==
  CASE step = "convertPDF" -> 1
    [] step = "prepBedrockInputTask" -> 2
    [] step = "callBedrock" -> 3
    [] step = "extractBedrockResult" -> 4
    [] step = "writeToS3" -> 5
    [] step = "publishEvent" -> 6
    [] step = "Succeeded" -> 7
    [] OTHER -> 0

\* C16: every step of an execution goes from a state of the chain convertPDF,
\* prepBedrockInputTask, callBedrock, extractBedrockResult, writeToS3,
\* publishEvent to the next one (or fails), or is a step of the bedrockInput
\* handler within prepBedrockInputTask, so that no state is entered twice;
\* the request object is written by prepBedrockInputTask only, the
\* bucket by writeToS3 only, an event is put by publishEvent only and with
\* the output object written, and the execution succeeds with one object
\* written and one event put.
C16_LinearOrder ==
  [][/\ Rank(pc) \in 1..6
     /\ \/ pc' = "Aborted"
        \/ Rank(pc') = Rank(pc) + 1
        \/ pc = "prepBedrockInputTask" /\ pc' = pc /\ rawImages' # rawImages
     /\ wip' # wip => pc = "prepBedrockInputTask"
     /\ s3' # s3 => pc = "writeToS3"
     /\ events' # events
        => /\ pc = "publishEvent"
           /\ Len(putRequests) = 1
           /\ \E o \in s3 : o.Key = putRequests[1].Key
     /\ pc' = "Succeeded" => Len(events') = 1 /\ Len(putRequests') = 1]_vars

\* The execution succeeded: the object is in the bucket and the event is put.
C16_Witness ==
  /\ pc = "Succeeded"
  /\ Cardinality(s3) = 1
  /\ Len(events) = 1
  /\ wip # NoRequest

\* C17: extractBedrockResult makes $ the object {result, metadata} of the
\* parsed payload and the execution input; writeToS3 leaves $ as it is;
\* publishEvent puts one event whose detail is $: its metadata is the
\* execution input and its result is the body of the object written.
C17_EventCarriesRecordAndInput ==
  [][/\ (pc = "extractBedrockResult" /\ pc' = "writeToS3")
        => /\ state'.metadata = input
           /\ DOMAIN state'.result = PayloadKeys(state.text)
           /\ \A key \in PayloadKeys(state.text) :
                state'.result[key] = PayloadValue(state.text, key)
     /\ (pc = "writeToS3" /\ pc' = "publishEvent") => state' = state
     /\ (pc = "publishEvent" /\ pc' = "Succeeded")
        => /\ Len(events') = 1
           /\ events'[1].detail.metadata = input
           /\ events'[1].detail.result = state.result
           /\ \E o \in s3 :
                /\ o.Key = putRequests[1].Key
                /\ o.Body = events'[1].detail.result]_vars

\* An event was put for an execution started with a prompt of the caller.
C17_Witness ==
  /\ pc = "Succeeded"
  /\ events # <<>>
  /\ events[1].detail.metadata.prompt \notin {Undefined, ""}
  /\ events[1].detail.metadata.key = "input/my-invoice.pdf"
  /\ "utility_name" \in DOMAIN events[1].detail.result
  /\ \E o \in s3 : o.Body = events[1].detail.result

Kept(i) == \E o \in s3 : o.Key = putRequests[i].Key

\* C19 as stated: two executions for the same input document that wrote
\* their output wrote it at two different keys.
C19_RerunWritesAnotherKey ==
  \A i, j \in DOMAIN putRequests :
    (i < j /\ putRequests[i].document = putRequests[j].document)
    => putRequests[i].Key # putRequests[j].Key

\* C19, amended: two executions of the generative workflow that wrote their
\* output wrote it at two different keys, whatever their input documents, and
\* the bucket has an object for each; two executions of the structured
\* workflow for the same input document wrote it at the same key, where the
\* bucket has the one object.
C19_RerunWritesAnotherKeyWhenGenerative ==
  /\ IsGenerative
     => /\ \A i, j \in DOMAIN putRequests :
             i < j => putRequests[i].Key # putRequests[j].Key
        /\ Cardinality(s3) = Len(putRequests)
  /\ ~IsGenerative
     => \A i, j \in DOMAIN putRequests :
          putRequests[i].document = putRequests[j].document
          => /\ putRequests[i].Key = putRequests[j].Key
             /\ Cardinality({o \in s3 : o.Key = putRequests[i].Key}) = 1

\* The generative workflow ran twice for one invoice and succeeded twice.
C19_Witness ==
  /\ IsGenerative
  /\ pc = "Succeeded"
  /\ Len(putRequests) = 2
  /\ putRequests[1].document = putRequests[2].document
  /\ putRequests[1].execution = 1 /\ putRequests[2].execution = 2
  /\ Kept(1) /\ Kept(2)
  /\ Cardinality(s3) = 2

\* C20: two executions for the same input key that wrote their output wrote
\* it at the same key.
C20_KeyIsFunctionOfInputKey ==
  \A i, j \in DOMAIN putRequests :
    putRequests[i].document = putRequests[j].document
    => putRequests[i].Key = putRequests[j].Key

(***************************************************************************)
(* The output key against the input key.                                   *)
(***************************************************************************)
\* The file names of the known invoices: the input keys without input/.
InvoiceNames == {"xcel-2023-07.pdf", "xcel-2023-08.pdf"}

\* The key the README gives for the result of input/<name>.
DocumentedOutputKey(name) == "output/" \o name \o ".json"

\* C21: every output written for the document uploaded at input/<name> was
\* written at output/<name>.json, the input key with its prefix input/
\* replaced by output/ and the suffix .json added.
C21_OutputKeyReplacesPrefix ==
  \A i \in DOMAIN putRequests :
    \A name \in InvoiceNames :
      putRequests[i].document = "input/" \o name
      => putRequests[i].Key = DocumentedOutputKey(name)

(***************************************************************************)
(* The keys of the output objects of executions side by side.              *)
(***************************************************************************)
\* The executions side by side are those of the structured workflow.
StructuredInstances ==
  \A i \in DOMAIN instances : instances[i].workflow = "structured"

\* C22 as stated: two executions running side by side that wrote their
\* output wrote it at two different keys, so that the bucket holds the object
\* of each.
C22_ConcurrentWritesDistinctKeys ==
  /\ \A i, j \in DOMAIN putRequests :
       putRequests[i].execution # putRequests[j].execution
       => putRequests[i].Key # putRequests[j].Key
  /\ Cardinality(s3) = Len(putRequests)

\* C22, amended: two executions of the generative workflow running side by
\* side wrote their output at two different keys and the bucket holds the
\* object of each; two executions of the structured workflow running side by
\* side wrote it at two different keys exactly if their input keys differ,
\* and the bucket holds one object for each input key written for.
C22_ConcurrentWritesDistinctKeysPerDocument ==
  /\ ~StructuredInstances
     => /\ \A i, j \in DOMAIN putRequests :
             i # j => putRequests[i].Key # putRequests[j].Key
        /\ Cardinality(s3) = Len(putRequests)
  /\ StructuredInstances
     => /\ \A i, j \in DOMAIN putRequests :
             (putRequests[i].Key = putRequests[j].Key)
             <=> (putRequests[i].document = putRequests[j].document)
        /\ Cardinality(s3)
             = Cardinality({putRequests[i].document : i \in DOMAIN putRequests})

\* Two executions of the structured workflow, started side by side for two
\* invoices, both wrote their output, the second to start writing first.
C22_Witness ==
  /\ instances # <<>>
  /\ StructuredInstances
  /\ instances[1].key # instances[2].key
  /\ Len(putRequests) = 2
  /\ putRequests[1].execution = 2 /\ putRequests[2].execution = 1
  /\ putRequests[1].Key # putRequests[2].Key
  /\ Cardinality(s3) = 2

(***************************************************************************)
(* The Wait states and the status requests of an execution.                *)
(***************************************************************************)
\* The states that send a status request.
PollStates == {"GetExpenseAnalysis", "GetDocumentAnalysisStep"}

\* C23: every Wait state the execution entered took TEXTRACT_WAIT_DELAY_IN_S
\* seconds, however many status requests had been sent before it; and the
\* execution entered a Wait state of its own before each status request it
\* sent: when it is about to send a request (the first one included) it has
\* entered one Wait state more than it has sent requests, and it never has
\* sent more requests than it has entered Wait states.
C23_FixedWaitBeforeEveryPoll ==
  /\ \A i \in DOMAIN waits : waits[i] = TEXTRACT_WAIT_DELAY_IN_S
  /\ pc \in PollStates /\ Len(polls) < MaxPolls
     => Len(waits) = Len(polls) + 1
  /\ Len(polls) <= Len(waits)

\* The expense job was IN_PROGRESS at the first status request; the execution
\* waited again, as long as the first time, and is about to send the second.
C23_Witness ==
  /\ pc = "GetExpenseAnalysis"
  /\ expenseAnalysis.JobStatus = "IN_PROGRESS"
  /\ polls = <<"AnalyzeExpense">>
  /\ waits = <<TEXTRACT_WAIT_DELAY_IN_S, TEXTRACT_WAIT_DELAY_IN_S>>

(***************************************************************************)
(* The order of the two jobs and of post-processing.                       *)
(***************************************************************************)
\* The statuses that lead an execution on.
Completed == {"SUCCEEDED", "PARTIAL_SUCCESS"}

\* The query job was submitted.
QuerySubmitted == CountOf("StartDocumentAnalysis", startRequests) > 0

\* The states of post-processing and behind it.
PostProcessingStates ==
  {"postProcessingLambdaStep", "GetDocumentAnalysisCommand", "PutObjectStep",
   "EndSuccessStep"}

\* C24: the execution is at startQueriesLambdaStep, or has submitted the
\* query job, only when the last status it saw of the expense job is
\* SUCCEEDED or PARTIAL_SUCCESS; it is at post-processing or behind it only
\* when that holds of the expense job and, the query job having been
\* submitted, of the query job too; and no status request for the expense
\* job follows one for the query job, the expense job having completed when
\* the query job is polled.
C24_StrictSequencing ==
  /\ pc = "startQueriesLambdaStep" \/ QuerySubmitted
     => expenseAnalysis.JobStatus \in Completed
  /\ pc \in PostProcessingStates
     => /\ expenseAnalysis.JobStatus \in Completed
        /\ QuerySubmitted => documentAnalysis.JobStatus \in Completed
  /\ \A i, j \in DOMAIN polls :
       i < j => ~(polls[i] = "AnalyzeDocument" /\ polls[j] = "AnalyzeExpense")
  /\ \/ pc = "GetDocumentAnalysisStep"
     \/ \E i \in DOMAIN polls : polls[i] = "AnalyzeDocument"
     => /\ expenseAnalysis.JobStatus \in Completed
        /\ QuerySubmitted

\* Post-processing of an execution that polled the expense job, submitted the
\* query job and then polled the query job.
C24_Witness ==
  /\ pc = "postProcessingLambdaStep"
  /\ startRequests = <<"StartExpenseAnalysis", "StartDocumentAnalysis">>
  /\ polls = <<"AnalyzeExpense", "AnalyzeDocument">>
  /\ expenseAnalysis.JobStatus = "PARTIAL_SUCCESS"
  /\ documentAnalysis.JobStatus = "SUCCEEDED"

(***************************************************************************)
(* The end of an execution, and the loops of the workflow.                 *)
(***************************************************************************)
\* The place of a state in the definition of the structured workflow.
PlaceOf(step) ==
  CASE step = "StartExpenseAnalysis" -> 1
    [] step = "WaitForTextractExpenseAnalysis" -> 2
    [] step = "GetExpenseAnalysis" -> 3
    [] step = "EvaluateGetExpenseAnalysisReadiness" -> 4
    [] step = "startQueriesLambdaStep" -> 5
    [] step = "StartQueriesChoiceStep" -> 6
    [] step = "WaitForTextractDocumentAnalysis" -> 7
    [] step = "GetDocumentAnalysisStep" -> 8
    [] step = "EvaluateGetDocumentAnalysisReadiness" -> 9
    [] step = "postProcessingLambdaStep" -> 10
    [] step = "GetDocumentAnalysisCommand" -> 11
    [] step = "PutObjectStep" -> 12
    [] OTHER -> 13

\* The step from a Choice state back to the Wait state of its loop, the job
\* being IN_PROGRESS.
ExpenseLoop ==
  /\ pc = "EvaluateGetExpenseAnalysisReadiness"
  /\ expenseAnalysis.JobStatus = "IN_PROGRESS"
  /\ pc' = "WaitForTextractExpenseAnalysis"
QueryLoop ==
  /\ pc = "EvaluateGetDocumentAnalysisReadiness"
  /\ documentAnalysis.JobStatus = "IN_PROGRESS"
  /\ pc' = "WaitForTextractDocumentAnalysis"

\* The execution ended: in EndSuccessStep, in a Fail state, or, a task having
\* failed, where the task was.
Ended == pc \in {"EndSuccessStep"} \cup FailStates \/ pc = "Aborted"

\* C25: an execution whose jobs, polled again and again, at some poll report
\* a status other than IN_PROGRESS, eventually is in EndSuccessStep or in a
\* Fail state, unless one of its tasks fails; and every step of it leads to
\* a state further down the definition, but for the step back to the Wait
\* state of the expense loop and the one back to that of the query loop.
C25_EventuallyEnds ==
  /\ <>Ended
  /\ [][pc' # pc => \/ PlaceOf(pc') > PlaceOf(pc)
                     \/ ExpenseLoop
                     \/ QueryLoop]_vars

\* The execution went through the expense loop more than once and through
\* the query job, and ended in EndSuccessStep.
C25_Witness ==
  /\ pc = "EndSuccessStep"
  /\ polls = <<"AnalyzeExpense", "AnalyzeExpense">>
  /\ waits = <<TEXTRACT_WAIT_DELAY_IN_S, TEXTRACT_WAIT_DELAY_IN_S>>
  /\ QuerySubmitted
  /\ documentAnalysis.JobStatus \in Completed

(***************************************************************************)
(* A status request that fails.                                            *)
(***************************************************************************)
\* The state behind each status request, and the Wait state before it.
ChoiceOf(step) ==
  IF step = "GetExpenseAnalysis" THEN "EvaluateGetExpenseAnalysisReadiness"
  ELSE "EvaluateGetDocumentAnalysisReadiness"
WaitOf(step) ==
  IF step = "GetExpenseAnalysis" THEN "WaitForTextractExpenseAnalysis"
  ELSE "WaitForTextractDocumentAnalysis"

\* C26: a status request that fails, the execution leaving GetExpenseAnalysis
\* or GetDocumentAnalysisStep with no status for the Choice state, leads the
\* execution back to the Wait state of the loop, as IN_PROGRESS does.
C26_FailedPollWaitsAgain ==
  [][(pc \in PollStates /\ pc' \notin {pc, ChoiceOf(pc)})
     => pc' = WaitOf(pc)]_vars

(***************************************************************************)
(* A submission that fails.                                                *)
(***************************************************************************)
\* The execution sent a start request and holds no job id for it: the
\* request was rejected, or the response had no JobId.
ExpenseSubmissionFailed ==
  /\ CountOf("StartExpenseAnalysis", startRequests) > 0
  /\ Falsy(expenseAnalysis.JobId)
QuerySubmissionFailed ==
  /\ QuerySubmitted
  /\ Falsy(queries.documentAnalysisJobId)

\* The execution wrote no output.
NoOutputWritten ==
  \A i \in DOMAIN putRequests : putRequests[i].execution # execution

\* C27: an execution whose submission of a job failed has ended in failure;
\* it sent the start request of the job once; no Wait state and no status
\* request followed the submission; and it wrote no output.
C27_FailedSubmissionEndsExecution ==
  /\ ExpenseSubmissionFailed
     => /\ pc = "Aborted"
        /\ startRequests = <<"StartExpenseAnalysis">>
        /\ waits = <<>> /\ polls = <<>>
        /\ NoOutputWritten
  /\ QuerySubmissionFailed
     => /\ pc = "Aborted"
        /\ startRequests = <<"StartExpenseAnalysis", "StartDocumentAnalysis">>
        /\ \A i \in DOMAIN polls : polls[i] = "AnalyzeExpense"
        /\ Len(waits) = Len(polls)
        /\ NoOutputWritten

(***************************************************************************)
(* The one output write of an execution.                                   *)
(***************************************************************************)
\* The PutObject requests of the execution numbered n.
WritesOf(n) == {i \in DOMAIN putRequests : putRequests[i].execution = n}

\* The states behind the state that writes the output, in either workflow.
BehindTheWrite == {"EndSuccessStep", "publishEvent", "Succeeded"}

\* C28: no execution wrote its output twice; an execution that is behind
\* the state that writes the output, in its success state above all, wrote
\* it once; and an execution that wrote its output had the result of
\* post-processing (of extractBedrockResult) to write, wrote it at the state
\* before EndSuccessStep (before publishEvent), and is behind that state.
C28_ExactlyOneWrite ==
  /\ \A n \in 1..execution : Cardinality(WritesOf(n)) <= 1
  /\ pc \in BehindTheWrite => Cardinality(WritesOf(execution)) = 1
  /\ \A i \in WritesOf(execution) :
       /\ i = Len(putRequests)
       /\ pc \in BehindTheWrite \cup {"Aborted"}
       /\ IF IsGenerative
          THEN /\ state.HasResult
               /\ \E o \in s3 : /\ o.Key = putRequests[i].Key
                                /\ o.Body = state.result
          ELSE /\ pc = "EndSuccessStep"
               /\ Payload # NoPayload
               /\ putRequests[i].Key = Payload.outputKey
               /\ \E o \in s3 : /\ o.Key = Payload.outputKey
                                /\ o.Body = Payload.invoiceOutput

\* The second execution of the structured workflow is in EndSuccessStep, the
\* first one having succeeded as well: each wrote once.
C28_Witness ==
  /\ ~IsGenerative
  /\ pc = "EndSuccessStep"
  /\ execution = 2
  /\ Len(putRequests) = 2
  /\ putRequests[1].execution = 1
  /\ putRequests[2].execution = 2
  /\ hasQueriesToResolve(queries)

(***************************************************************************)
(* The structured fields of the record written.                            *)
(***************************************************************************)
\* The value of a structured field of the record is the text of a candidate
\* of the type in the document the handler reads, or else the sentinel; and
\* it is the sentinel when no candidate of maximal confidence has a text.
TextOrSentinel(record, d, type, sentinel) ==
  LET value == SummaryValue(record, type)
  IN  /\ \/ \E i \in Candidates(d, type) :
               /\ ~Falsy(d.SummaryFields[i].Text)
               /\ value = d.SummaryFields[i].Text
         \/ value = sentinel
      /\ (\A i \in Candidates(d, type) :
            IsMaximal(d, type, i) => Falsy(d.SummaryFields[i].Text))
         => value = sentinel

HoldsDocumentLocation ==
  /\ detail.bucket = "invoices-bucket"
  /\ detail.key \in KnownInvoices \cup InputKeys

\* C30: in FailedTextract the state data holds the document's location and
\* the id of the expense job, the one job submitted; in FailedTextractQuery
\* it holds the document's location, the id of the expense job and the id
\* of the query job.
C30_FailStateHoldsLocationAndJobIds ==
  /\ pc = "FailedTextract"
     => /\ HoldsDocumentLocation
        /\ expenseAnalysis.JobId = "expense-job"
        /\ startRequests = <<"StartExpenseAnalysis">>
  /\ pc = "FailedTextractQuery"
     => /\ HoldsDocumentLocation
        /\ expenseAnalysis.JobId = "expense-job"
        /\ queries.documentAnalysisJobId = "document-job"
        /\ startRequests = <<"StartExpenseAnalysis", "StartDocumentAnalysis">>

\* The query job had failed at its first status request.
C30_Witness ==
  /\ pc = "FailedTextractQuery"
  /\ documentAnalysis.JobStatus = "FAILED"
  /\ polls = <<"AnalyzeExpense", "AnalyzeDocument">>
  /\ detail.key = "input/xcel-2023-08.pdf"
  /\ expenseAnalysis.JobId = "expense-job"
  /\ queries.documentAnalysisJobId = "document-job"

(***************************************************************************)
(* What a status poll asks for and what it leaves alone.                   *)
(***************************************************************************)
\* The state data a poll has no result path into, and what lies behind the
\* workflow: the bucket and the requests sent so far.
BesideTheStatus ==
  <<detail, invoiceQueries, expenseAnalysis.JobId, queries,
    documentAnalysis.JobId, Payload, s3, putRequests, startRequests,
    utilityInvoiceSummary, docRequests>>

\* C31: the status request of GetExpenseAnalysis is a GetExpenseAnalysis
\* command with the job id StartExpenseAnalysis returned, the one of
\* GetDocumentAnalysisStep a GetDocumentAnalysis command with the job id
\* startQueries returned; the step changes the status of its own job and
\* nothing else of the state data, the bucket or the jobs.
C31_PollAsksOwnJobAndChangesStatusOnly ==
  [][/\ pc = "GetExpenseAnalysis"
        => /\ BesideTheStatus' = BesideTheStatus
           /\ documentAnalysis' = documentAnalysis
           /\ pc' = "EvaluateGetExpenseAnalysisReadiness"
              => /\ jobResponse'.command = "GetExpenseAnalysisCommand"
                 /\ jobResponse'.JobId = "expense-job"
                 /\ jobResponse'.JobId = expenseAnalysis.JobId
                 /\ expenseAnalysis'.JobStatus =
                      checkTextractJobStatus(jobResponse'.JobStatus)
     /\ pc = "GetDocumentAnalysisStep"
        => /\ BesideTheStatus' = BesideTheStatus
           /\ expenseAnalysis' = expenseAnalysis
           /\ pc' = "EvaluateGetDocumentAnalysisReadiness"
              => /\ jobResponse'.command = "GetDocumentAnalysisCommand"
                 /\ jobResponse'.JobId = "document-job"
                 /\ jobResponse'.JobId = queries.documentAnalysisJobId
                 /\ documentAnalysis'.JobStatus =
                      checkTextractJobStatus(jobResponse'.JobStatus)]_vars

\* Both jobs were polled: the expense job had succeeded, the query job has
\* just been asked for with its own id.
C31_Witness ==
  /\ pc = "EvaluateGetDocumentAnalysisReadiness"
  /\ polls = <<"AnalyzeExpense", "AnalyzeDocument">>
  /\ expenseAnalysis = [JobId |-> "expense-job", JobStatus |-> "SUCCEEDED"]
  /\ jobResponse.command = "GetDocumentAnalysisCommand"
  /\ jobResponse.JobId = "document-job"
  /\ documentAnalysis.JobStatus = "IN_PROGRESS"

(***************************************************************************)
(* What the state data carries through the poll loops to the handler.      *)
(***************************************************************************)
\* The states of the two poll loops.
LoopStates ==
  {"WaitForTextractExpenseAnalysis", "GetExpenseAnalysis",
   "EvaluateGetExpenseAnalysisReadiness", "WaitForTextractDocumentAnalysis",
   "GetDocumentAnalysisStep", "EvaluateGetDocumentAnalysisReadiness"}

\* The requests invoicePostProcessing has sent ask for the expense job
\* first and for the query job in every later one.
FetchesOwnJobs ==
  \A i \in DOMAIN resultRequests :
    resultRequests[i] =
      IF i = 1
      THEN resultRequest("GetExpenseAnalysisCommand", "expense-job")
      ELSE resultRequest("GetDocumentAnalysisCommand", "document-job")

\* A step of a poll loop changes the status of the job it asks for and
\* nothing else of $.detail, $.expenseAnalysis, $.queries or
\* $.documentAnalysis.
LoopStepKeepsData ==
  pc \in LoopStates
  => /\ detail' = detail
     /\ expenseAnalysis'.JobId = expenseAnalysis.JobId
     /\ queries' = queries
     /\ invoiceQueries' = invoiceQueries
     /\ pc # "GetExpenseAnalysis" => expenseAnalysis' = expenseAnalysis
     /\ pc # "GetDocumentAnalysisStep" => documentAnalysis' = documentAnalysis

\* C32: a step of a poll loop leaves $.detail, the expense job's id and
\* $.queries as they are, the status request changing the status of its
\* own job only; the requests of invoicePostProcessing carry the ids
\* StartExpenseAnalysis and startQueries returned to this execution, which
\* the state data still holds, and the output key it returns is made of
\* the key of $.detail.
C32_LoopsKeepLocationAndJobIds ==
  /\ [][LoopStepKeepsData]_vars
  /\ [](~IsGenerative
        => /\ FetchesOwnJobs
           /\ resultRequests # <<>>
              => /\ expenseAnalysis.JobId = "expense-job"
                 /\ startRequests[1] = "StartExpenseAnalysis"
           /\ Len(resultRequests) > 1
              => /\ queries.documentAnalysisJobId = "document-job"
                 /\ queries.queriesUsed = invoiceQueries
                 /\ startRequests =
                      <<"StartExpenseAnalysis", "StartDocumentAnalysis">>
           /\ Payload # NoPayload
              => Payload.outputKey = outputKeyOf(detail.key))

\* The expense job was polled twice and more; the handler has asked for
\* both jobs by their ids and returned the key made of the input key.
C32_Witness ==
  /\ pc = "PutObjectStep"
  /\ polls = <<"AnalyzeExpense", "AnalyzeExpense">>
  /\ waits = <<TEXTRACT_WAIT_DELAY_IN_S, TEXTRACT_WAIT_DELAY_IN_S>>
  /\ detail.key = "input/xcel-2023-07.pdf"
  /\ resultRequests =
       <<resultRequest("GetExpenseAnalysisCommand", "expense-job"),
         resultRequest("GetDocumentAnalysisCommand", "document-job")>>
  /\ Payload.outputKey = "output/input/xcel-2023-07.pdf.json"

(***************************************************************************)
(* The keys of ConsumptionMetadata.                                        *)
(***************************************************************************)
\* The keys the submitted queries are answered under.
SubmittedKeys ==
  {KeyOf(queries.queriesUsed[n]) : n \in DOMAIN queries.queriesUsed}

\* The block is a QUERY block whose alias is the alias of no submitted query.
NotSubmitted(block) ==
  /\ block.HasQuery
  /\ \A n \in DOMAIN queries.queriesUsed : ~Matches(block, queries.queriesUsed[n])

\* C33: the keys of ConsumptionMetadata, in the summary while it is built
\* and in the record returned, are keys of submitted queries
\* ("alias_undefined" for a query without alias); the alias of a QUERY
\* block no submitted query carries is no key of the record, whatever the
\* block refers to.
C33_MetadataKeysAreSubmittedAliases ==
  /\ DOMAIN utilityInvoiceSummary.ConsumptionMetadata \subseteq SubmittedKeys
  /\ Returned
     => /\ DOMAIN OutputMetadata \subseteq SubmittedKeys
        /\ \A i \in DOMAIN docBlocks :
             NotSubmitted(docBlocks[i])
             => KeyOf(Query(docBlocks[i].Alias)) \notin DOMAIN OutputMetadata

\* Two QUERY blocks refer to the same answer; only the alias of the first
\* was submitted, and only that alias is a key of the record.
C33_Witness ==
  /\ Returned
  /\ queries.queriesUsed = <<Query("consumption_in_kwh")>>
  /\ \E i, j, r \in DOMAIN docBlocks :
       /\ Matches(docBlocks[i], Query("consumption_in_kwh"))
       /\ NotSubmitted(docBlocks[j])
       /\ FirstRef(docBlocks[i]) = r
       /\ FirstRef(docBlocks[j]) = r
       /\ IsAnswer(docBlocks[r], r)
       /\ docBlocks[r].Text = "842"
  /\ DOMAIN OutputMetadata = {"consumption_in_kwh"}

(***************************************************************************)
(* Several blocks with the alias of one query.                             *)
(***************************************************************************)
\* The text the query's selected block refers to: the text of the
\* QUERY_RESULT block of that id, Undefined when no block is selected, the
\* id is the id of no QUERY_RESULT block or that block has no text.
AnswerOf(query) ==
  IF \E i, j \in DOMAIN docBlocks :
       /\ IsSelected(i, query)
       /\ IsAnswer(docBlocks[j], FirstRef(docBlocks[i]))
  THEN LET i == CHOOSE i \in DOMAIN docBlocks : IsSelected(i, query)
       IN  docBlocks[FirstRef(docBlocks[i])].Text
  ELSE Undefined

\* C34: for every submitted query the record's entry is the one of the
\* first block, in fetched order, that carries the query's alias and a
\* first relationship id: the text that block refers to, or no entry when it
\* refers to none; blocks with the alias before it that have no
\* relationship, and all blocks with the alias behind it, have no part in
\* the entry.
C34_FirstLinkedBlockDecides ==
  Returned
  => \A n \in DOMAIN queries.queriesUsed :
       LET query == queries.queriesUsed[n]
       IN  IF AnswerOf(query) = Undefined
           THEN KeyOf(query) \notin DOMAIN OutputMetadata
           ELSE /\ KeyOf(query) \in DOMAIN OutputMetadata
                /\ OutputMetadata[KeyOf(query)] = AnswerOf(query)

\* The first block with the alias has no relationship, the second refers
\* to the answer: the record has the answer under the alias.
C34_Witness ==
  /\ Returned
  /\ queries.queriesUsed[1] = Query("consumption_in_kwh")
  /\ \E i, j, r \in DOMAIN docBlocks :
       /\ i < j
       /\ Matches(docBlocks[i], Query("consumption_in_kwh"))
       /\ FirstRef(docBlocks[i]) = 0
       /\ IsSelected(j, Query("consumption_in_kwh"))
       /\ FirstRef(docBlocks[j]) = r
       /\ IsAnswer(docBlocks[r], r)
       /\ docBlocks[r].Text = "842"
  /\ AnswerOf(Query("consumption_in_kwh")) = "842"
  /\ "consumption_in_kwh" \in DOMAIN OutputMetadata
  /\ OutputMetadata["consumption_in_kwh"] = "842"

(***************************************************************************)
(* When invoicePostProcessing asks for the query job.                      *)
(***************************************************************************)
\* The event has both the list of the queries used and the id of the
\* document-analysis job.
CarriesQueriesAndJobId ==
  /\ queries.HasQueriesUsed
  /\ queries.documentAnalysisJobId \notin {Undefined, ""}

DocumentRequests ==
  {i \in DOMAIN resultRequests :
     resultRequests[i].command = "GetDocumentAnalysisCommand"}

\* C35: invoicePostProcessing sends GetDocumentAnalysis requests only for
\* an event that has both queriesUsed and documentAnalysisJobId; for such
\* an event the record it returns lies behind at least one such request and
\* has an entry for every query that resolves over the blocks fetched; for
\* any other event it returns behind its one GetExpenseAnalysis request, and
\* the record has no ConsumptionMetadata.
C35_QueriesFetchedIffBothPresent ==
  /\ (DocumentRequests # {} \/ pc = "GetDocumentAnalysisCommand")
     => CarriesQueriesAndJobId
  /\ Returned /\ CarriesQueriesAndJobId
     => /\ DocumentRequests # {}
        /\ Len(docRequests) = Cardinality(DocumentRequests)
        /\ textractBlocks = docBlocks
        /\ \A n \in DOMAIN queries.queriesUsed :
             Resolvable(queries.queriesUsed[n])
             => KeyOf(queries.queriesUsed[n]) \in DOMAIN OutputMetadata
  /\ Returned /\ ~CarriesQueriesAndJobId
     => /\ resultRequests =
             <<resultRequest("GetExpenseAnalysisCommand", "expense-job")>>
        /\ docRequests = <<>>
        /\ ~Payload.invoiceOutput.HasConsumptionMetadata
        /\ DOMAIN OutputMetadata = {}

\* The event has the queries used but no job id: the record is returned
\* with no request for the query job and without ConsumptionMetadata.
C35_Witness ==
  /\ Returned
  /\ queries.HasQueriesUsed
  /\ queries.queriesUsed = <<Query("consumption_in_kwh")>>
  /\ queries.documentAnalysisJobId = Undefined
  /\ DocumentRequests = {}
  /\ ~Payload.invoiceOutput.HasConsumptionMetadata
  /\ Payload.invoiceOutput.UtilityName # Undefined

(***************************************************************************)
(* Results that miss a part.                                               *)
(***************************************************************************)
\* The expense result has no documents, or its first document has no
\* summary fields.
ExpenseResultUnusable ==
  /\ expensePages # <<>>
  /\ \/ ~expensePages[1].HasExpenseDocuments
     \/ Len(expensePages[1].ExpenseDocuments) = 0
     \/ ~expensePages[1].ExpenseDocuments[1].HasSummaryFields

\* The GetDocumentAnalysis request sent last was answered without Blocks.
PageWithoutBlocks ==
  /\ pc = "Aborted"
  /\ Len(docRequests) = Len(docResponses) + 1

PostProcessingFailed ==
  (ExpenseResultUnusable \/ PageWithoutBlocks)
  => /\ pc = "Aborted"
     /\ Payload = NoPayload
     /\ s3 = {}
     /\ putRequests = <<>>
     /\ ExpenseResultUnusable
        => docRequests = <<>> /\ Len(resultRequests) = 1
     /\ PageWithoutBlocks
        => Len(resultRequests) = Len(docRequests) + 1

\* C36: on an expense result without documents or whose first document has
\* no summary fields, and on a GetDocumentAnalysis response without Blocks,
\* invoicePostProcessing throws: the execution is aborted with no record
\* in $.Payload and no object put into the bucket, and no step is taken
\* from there, so no request follows the one that failed.
C36_UnusableResultFailsPostProcessing ==
  /\ []PostProcessingFailed
  /\ [][pc # "Aborted"]_vars

\* The first page of blocks was fetched; the request for the second one
\* was answered without Blocks.
C36_Witness ==
  /\ PageWithoutBlocks
  /\ Len(docRequests) = 2
  /\ textractBlocks # <<>>
  /\ Len(textractBlocks) < Len(docBlocks)
  /\ Payload = NoPayload
  /\ s3 = {}

(***************************************************************************)
(* The downloads of addImagesToPrompt.                                     *)
(***************************************************************************)
\* C37: the content of the request object written is the text part
\* followed by one image part for each location of imageLocations, the
\* i-th one with the image downloaded from the i-th location, in whatever
\* order the downloads resolved; after a download that rejected the
\* execution is aborted and no request object is written.
C37_ImagesInInputOrder ==
  /\ wip # NoRequest
     => /\ rawImages.rejected = 0
        /\ Len(rawImages.settled) = Len(rawImages.imageLocations)
        /\ Len(wip.content) = Len(rawImages.imageLocations) + 1
        /\ wip.content[1].type = "text"
        /\ \A i \in DOMAIN rawImages.imageLocations :
             /\ wip.content[i + 1].type = "image"
             /\ wip.content[i + 1].data =
                  getImageFromS3(rawImages.imageLocations[i])
  /\ rawImages.rejected # 0
     => /\ pc = "Aborted"
        /\ wip = NoRequest
        /\ state.Key = Undefined

\* The download of the second page resolved before the one of the first:
\* the request object has the first page in front of the second.
C37_Witness ==
  /\ pc = "callBedrock"
  /\ rawImages.imageLocations =
       <<S3Location("wip/page-1.png"), S3Location("wip/page-2.png")>>
  /\ rawImages.settled = <<2, 1>>
  /\ Len(wip.content) = 3
  /\ wip.content[2].data = "base64:wip/page-1.png"
  /\ wip.content[3].data = "base64:wip/page-2.png"

====
